---- MODULE Spec2Model ----
(***************************************************************************)
(* A model of the in-memory similarity index of face-lock                  *)
(* (src/lib/entityDb.ts): the record store kept by createEntityDb, the     *)
(* scalar Hamming ranking (queryBinary), the lazily loaded WASM kernel and *)
(* the accelerated ranking that runs over it (queryBinarySIMD).            *)
(*                                                                         *)
(* JavaScript runs one task at a time, so every action below is one        *)
(* synchronous stretch of code: a whole synchronous handler, or the part   *)
(* of an async function between two awaits.                                *)
(***************************************************************************)
EXTENDS Integers, Sequences, FiniteSets, TLC

\* ------------------------------------------------------------------ bounds

\* Width of one packed word. The program packs 64 bits per BigUint64Array
\* element; the model keeps the same arithmetic on narrower words.
WordBits == 2

\* Largest word count of a vector handed to the store or used as a probe.
MaxWords == 2

\* Largest explicit topK argument (the smallest is -1).
MaxTopK == 2

\* Largest number of queryBinarySIMD calls suspended on the kernel promise.
MaxWaiters == 2

\* Largest number of entries of the attendance ledger.
MaxLedger == 3

\* Largest length of an embedding handed to binarizeEmbedding.
MaxValues == 5

\* Load attempts of a model loader, and EntityDB instances constructed.
MaxLoads == 2

\* ------------------------------------------------------- program constants

maxRetries == 2

DefaultTopK == 5

PageSize == 65536

BytesPerWord == 8

\* -------------------------------------------------------------- input sets

Ids == {"a", "b"}

Metas == {"m1", "m2"}

AllOnes == 2 ^ WordBits - 1

\* Vectors of 0..MaxWords words: all-zero, all-one, and a single low bit in
\* the last word (so that distances 0, 1, WordBits, ... and ties all occur).
Uniform(n, w) == [i \in 1..n |-> w]

LowBit(n) == [i \in 1..n |-> IF i = n THEN 1 ELSE 0]

Vectors ==
    {Uniform(n, 0) : n \in 0..MaxWords}
        \cup {Uniform(n, AllOnes) : n \in 1..MaxWords}
        \cup {LowBit(n) : n \in 1..MaxWords}

Records == [id : Ids, vector : Vectors, metadata : Metas]

\* The smaller inputs of the specifications that also run queries.
QueryVectors == {Uniform(1, 0), LowBit(1), LowBit(MaxWords)}

QueryRecords == [id : Ids, vector : QueryVectors, metadata : {"m1"}]

Probes == {Uniform(0, 0), Uniform(1, 0), Uniform(MaxWords, AllOnes)}

\* A topK argument: omitted (the default applies) or an integer.
TopKArgs ==
    {[given |-> FALSE, value |-> 0]}
        \cup {[given |-> TRUE, value |-> k] : k \in (-1)..MaxTopK}

\* The topK arguments of the specification that runs queryBinarySIMD.
FewTopKArgs == {[given |-> FALSE, value |-> 0], [given |-> TRUE, value |-> 1]}

\* ------------------------------------------------------- clock-in inputs

Reqs == {"r1", "r2"}

UserIds == {"u1", "u2"}

\* The userId of a request: a registered one or one nobody has.
RequestUserIds == UserIds \cup {"u9"}

\* Face embeddings of registered users. Against the probe <<1, 0>> their cosine
\* similarities are 1, about 0.0995, 0 and -1; <<1, 0, 0>> has another length.
StoredEmbeddings == {<<1, 0>>, <<1, 10>>, <<0, 1>>, <<-1, 0>>, <<1, 0, 0>>}

QueryEmbeddings == {<<1, 0>>, <<0, 0>>}

UserRows == [id : UserIds, faceEmbedding : StoredEmbeddings]

UserTables ==
    {<<>>}
        \cup {<<u>> : u \in UserRows}
        \cup {<<u, v>> : u \in {x \in UserRows : x.id = "u1"},
                         v \in {x \in UserRows : x.id = "u2"}}
        \cup {<<v, u>> : u \in {x \in UserRows : x.id = "u1"},
                         v \in {x \in UserRows : x.id = "u2"}}

\* How an attempt of the attendance.log call may settle: with the result, with
\* a failure callMCPTool retries, or with one it does not.
LogResults == {"ok", "Headers Timeout Error", "fetch failed"}

\* Similarities the compare collaborator may answer: 1, 0.6, 0.5, 0 (as num / sqrt(den2)).
RemoteSimilarities ==
    {[num |-> 1, den2 |-> 1], [num |-> 3, den2 |-> 25], [num |-> 1, den2 |-> 4],
     [num |-> 0, den2 |-> 1]}

\* A cosine similarity is kept exactly, as num / sqrt(den2) with den2 > 0.
Similarity(num, den2) == [num |-> num, den2 |-> den2]

ZeroSimilarity == Similarity(0, 1)

\* null of findBestFaceMatch
NoBest == [present |-> FALSE, id |-> "", similarity |-> ZeroSimilarity, match |-> FALSE]

\* The locals of a handler that has not started.
IdleReq ==
    [pc |-> "idle", userId |-> "", queryEmbedding |-> <<>>, user |-> "",
     similarity |-> ZeroSimilarity, bestMatch |-> NoBest, index |-> 0,
     lastStatus |-> "", status |-> "", logAttempt |-> 0, appended |-> 0,
     response |-> "none"]

\* ------------------------------------------------- pure-function inputs

\* Embeddings handed to binarizeEmbedding: up to MaxValues numbers.
EmbeddingValues == {-1, 0, 1}

RECURSIVE SeqsUpTo(_, _)
SeqsUpTo(S, n) ==
    IF n = 0 THEN {<<>>}
    ELSE LET shorter == SeqsUpTo(S, n - 1)
         IN  shorter \cup {Append(q, x) : q \in {t \in shorter : Len(t) = n - 1}, x \in S}

Embeddings == SeqsUpTo(EmbeddingValues, MaxValues)

\* A threshold argument: omitted (the default applies) or a number.
ThresholdArgs ==
    {[given |-> FALSE, value |-> 0], [given |-> TRUE, value |-> -1],
     [given |-> TRUE, value |-> 1]}

\* Every packed vector of up to MaxWords words.
PackedVectors == SeqsUpTo(0..AllOnes, MaxWords)

NoCall == [fn |-> "none"]

NoResult == [tag |-> "none"]

PureCalls ==
    [fn : {"binarizeEmbedding"}, embedding : Embeddings, threshold : ThresholdArgs]
        \cup [fn : {"hammingDistancePacked"}, a : PackedVectors, b : PackedVectors]
        \cup [fn : {"queryBinary"}, query : PackedVectors, vector : PackedVectors]

\* ---------------------------------------------------- collaborator calls

ToolNames == {"embedding.generate", "embedding.compare", "attendance.log"}

\* Messages of the errors an attempt can end with: the rejections of fetch
\* (the last two are what runtimes give for the abort of the 5 minute timer),
\* the error thrown for a response that is not ok, the rejections of
\* response.json(), and an error without message.
FetchErrors ==
    {"Headers Timeout Error", "UND_ERR_HEADERS_TIMEOUT", "fetch failed"}

AbortErrors == {"The operation was aborted", "This operation was aborted"}

NotOkErrors ==
    {"MCP server error: 500 Internal Server Error", "MCP server error: 504 Gateway Timeout"}

JsonErrors == {"Unexpected end of JSON input", "Body Timeout Error", ""}

\* String.prototype.includes over these messages: the needles each contains.
Needles(message) ==
    CASE message \in {"Headers Timeout Error", "Body Timeout Error",
                      "MCP server error: 504 Gateway Timeout"} -> {"Timeout"}
      [] message = "UND_ERR_HEADERS_TIMEOUT" -> {"UND_ERR_HEADERS_TIMEOUT"}
      [] message = "The operation was aborted" -> {"The operation was aborted"}
      [] OTHER -> {}

includes(message, needle) == needle \in Needles(message)

IdleMcp ==
    [pc |-> "idle", toolName |-> "", attempt |-> 0, requests |-> 0,
     lastError |-> [caught |-> FALSE, message |-> ""], errors |-> <<>>,
     value |-> [kind |-> "none"]]

None == [id |-> "none", vector |-> <<>>, metadata |-> "none"]

\* ------------------------------------------------- model loaders, EntityDB

Callers == {"c1", "c2", "c3"}

\* clientFaceEmbedding.ts: a promise is named by the number of its load
\* attempt, 0 standing for null.
IdleBrowserCaller == [pc |-> "idle", fn |-> "none", attempt |-> 0, joinedSettled |-> FALSE]

IdleBrowserModels ==
    [faceapi |-> FALSE, modelsLoaded |-> FALSE, loadingPromise |-> 0,
     promises |-> [n \in 1..MaxLoads |-> "none"], pc |-> "idle", starts |-> 0,
     callers |-> [c \in Callers |-> IdleBrowserCaller]]

\* mcp/tools/faceEmbedding.ts
IdleServerModels ==
    [modelsLoaded |-> FALSE, begun |-> 0, completed |-> 0,
     callers |-> [c \in Callers |-> [pc |-> "idle", fn |-> "none"]]]

\* browserEntityDb.ts: an EntityDB is named by the number of the initialisation
\* that constructs it, and so is the promise of that initialisation; 0 stands
\* for null.
\* The callers of getEntityDB that the specification of the EntityDB drives.
Getters == {"c1", "c2"}

IdleGetter == [pc |-> "idle", promise |-> 0, got |-> 0, first |-> FALSE, existed |-> 0]

NotResolved == [dbInstance |-> 0, initPromise |-> 0, inits |-> 0, resolved |-> FALSE]

IdleBrowserDb ==
    [dbInstance |-> 0, initPromise |-> 0, inits |-> 0,
     promises |-> [n \in 1..MaxLoads |-> "none"],
     clearPc |-> "idle", request |-> "none", timer |-> FALSE,
     atResolve |-> NotResolved, nextGet |-> FALSE,
     getters |-> [c \in Callers |-> IdleGetter]]

\* --------------------------------------------------------------- the store

VARIABLES
    records,      \* the Map of createEntityDb, as its entries in insertion order
    lastUpsert,   \* history: per id, the record of the latest upsert not yet removed
    liveIds,      \* history: ids upserted and not removed or cleared since
    lastOp,       \* history: what the latest step did to the store
    wasm,         \* the cached promise: "null", "pending", "exports" or "absent"
    loadPc,       \* where loadHammingSimdWasm stands
    loadCalls,    \* history: number of invocations of loadHammingSimdWasm
    simdCalled,   \* history: "never", or whether some queryBinarySIMD call came
                  \* after the load had settled ("late") or none did ("early")
    waiters,      \* queryBinarySIMD calls suspended at `await ensureWasm()`, oldest first
    memBytes,     \* byte length of the kernel's linear memory
    heap,         \* the first HeapWords words of that memory
    returned,     \* the query completed by the latest step and what it settled with
    kept,         \* an earlier value of returned that a caller still holds
    snapshot,     \* the array a caller holds from an earlier all()
    tracing,      \* history switch: whether a query records the store it was called on
    users,        \* the user table of the database, in the order findMany returns it
    ledger,       \* the attendanceLog table, oldest entry first
    reqs,         \* per clock-in request: where its handler stands and what it holds
    pureCall,     \* a call of one of the exported pure functions: which, and its arguments
    pureResult,   \* what that call gave
    mcp,          \* the callMCPTool invocation under way: its locals and its outcome
    browserModels,\* clientFaceEmbedding.ts: its module variables and its callers
    serverModels, \* mcp/tools/faceEmbedding.ts: its module variable and its callers
    browserDb     \* browserEntityDb.ts: dbInstance, initPromise, callers, a clear

loadVars == <<wasm, loadPc, loadCalls>>

memVars == <<memBytes, heap>>

storeVars == <<records, lastUpsert, liveIds, snapshot>>

entityDbVars ==
    <<records, lastUpsert, liveIds, lastOp, wasm, loadPc, loadCalls, simdCalled, waiters,
      memBytes, heap, returned, kept, snapshot, tracing>>

clockInVars == <<users, ledger, reqs>>

pureVars == <<pureCall, pureResult>>

mcpVars == <<mcp>>

lazyVars == <<browserModels, serverModels, browserDb>>

vars == <<entityDbVars, clockInVars, pureVars, mcpVars, lazyVars>>

otherThanEntityDb == <<clockInVars, pureVars, mcpVars, lazyVars>>

otherThanClockIn == <<entityDbVars, pureVars, mcpVars, lazyVars>>

otherThanPure == <<entityDbVars, clockInVars, mcpVars, lazyVars>>

otherThanMcp == <<entityDbVars, clockInVars, pureVars, lazyVars>>

otherThanLazy == <<entityDbVars, clockInVars, pureVars, mcpVars>>

\* --------------------------------------------------------- store operations

\* Index of the entry with key id, 0 when there is none.
IndexOf(recs, id) ==
    IF \E i \in 1..Len(recs) : recs[i].id = id
    THEN CHOOSE i \in 1..Len(recs) : recs[i].id = id
    ELSE 0

MapSetKeepsOldValue(recs, record) ==
    IF \E i \in 1..Len(recs) : recs[i].id = record.id THEN recs ELSE Append(recs, record)

\* Map.prototype.set: an existing key keeps its position, a new one goes last.
MapSet(recs, record) ==
    IF IndexOf(recs, record.id) = 0
    THEN Append(recs, record)
    ELSE [recs EXCEPT ![IndexOf(recs, record.id)] = record]

MapDeleteOldest(recs, id) == IF recs = <<>> THEN recs ELSE Tail(recs)

\* Map.prototype.delete
MapDelete(recs, id) == SelectSeq(recs, LAMBDA r : r.id # id)

upsertIfAbsent(recs, record) ==
    IF IndexOf(recs, record.id) = 0 THEN Append(recs, record) ELSE recs

upsert(recs, record) == MapSet(recs, record)

removeNothing(recs, id) == recs

remove(recs, id) == MapDelete(recs, id)

clear(recs) == <<>>

\* What a caller holds after all(): an array of its own (fresh), or the
\* store's own collection, which shows every later change of the store.
NoSnapshot == [taken |-> FALSE, fresh |-> TRUE, items |-> <<>>]

valuesView(recs) == [taken |-> TRUE, fresh |-> FALSE, items |-> recs]

\* Array.from(iterable): a new array of the elements, in iteration order
arrayFrom(recs) == [taken |-> TRUE, fresh |-> TRUE, items |-> recs]

\* The elements of a held array once the store holds recs.
Held(array, recs) == IF array.fresh THEN array ELSE [array EXCEPT !.items = recs]

\* Array.from(records.values())
all(recs) == arrayFrom(recs).items

\* records.get(id); None stands for undefined
get(recs, id) == IF IndexOf(recs, id) = 0 THEN None ELSE recs[IndexOf(recs, id)]

\* ------------------------------------------------------------ bit vectors

RECURSIVE BitAnd(_, _)
BitAnd(a, b) ==
    IF a = 0 \/ b = 0
    THEN 0
    ELSE ((a % 2) * (b % 2)) + 2 * BitAnd(a \div 2, b \div 2)

BitOrInsteadOfXor(a, b) == a + b - BitAnd(a, b)

RECURSIVE BitXor(_, _)
BitXor(a, b) ==
    IF a = 0 /\ b = 0
    THEN 0
    ELSE (((a % 2) + (b % 2)) % 2) + 2 * BitXor(a \div 2, b \div 2)

popcountLowestBitOnly(x) == x % 2

\* while (x !== 0) { x &= x - 1; count++ }
RECURSIVE popcount64BigInt(_)
popcount64BigInt(x) ==
    IF x = 0 THEN 0 ELSE 1 + popcount64BigInt(BitAnd(x, x - 1))

RECURSIVE SumXorPopcount(_, _, _)
SumXorPopcount(a, b, i) ==
    IF i > Len(a)
    THEN 0
    ELSE popcount64BigInt(BitXor(a[i], b[i])) + SumXorPopcount(a, b, i + 1)

\* A throw is the value [ok |-> FALSE]; the distance is meaningful when ok.
hammingDistanceUnchecked(a, b) ==
    [ok |-> TRUE,
     value |-> SumXorPopcount(a, [i \in 1..Len(a) |-> IF i <= Len(b) THEN b[i] ELSE 0], 1)]

hammingDistancePacked(a, b) ==
    IF Len(a) # Len(b)
    THEN [ok |-> FALSE, value |-> 0]
    ELSE [ok |-> TRUE, value |-> SumXorPopcount(a, b, 1)]

\* ----------------------------------------------------------------- ranking

WithDistance(rec, d) ==
    [id |-> rec.id, vector |-> rec.vector, metadata |-> rec.metadata, distance |-> d]

\* Array.prototype.sort with (a, b) => a.distance - b.distance: a stable sort,
\* here by insertion after the last element that is not farther.
RECURSIVE InsertByDistance(_, _)
InsertByDistance(sorted, x) ==
    IF sorted = <<>> \/ sorted[Len(sorted)].distance <= x.distance
    THEN Append(sorted, x)
    ELSE Append(InsertByDistance(SubSeq(sorted, 1, Len(sorted) - 1), x),
                sorted[Len(sorted)])

RECURSIVE SortFrom(_, _, _)
SortFrom(results, i, sorted) ==
    IF i > Len(results)
    THEN sorted
    ELSE SortFrom(results, i + 1, InsertByDistance(sorted, results[i]))

sortUnsorted(results) == results

sortByDistance(results) == SortFrom(results, 1, <<>>)

\* Array.prototype.slice(0, end)
slice(results, end) ==
    IF end < 0
    THEN SubSeq(results, 1, IF Len(results) + end < 0 THEN 0 ELSE Len(results) + end)
    ELSE SubSeq(results, 1, IF end > Len(results) THEN Len(results) ELSE end)

\* topK: number = 5
topKOrDefault(arg) == IF arg.given THEN arg.value ELSE DefaultTopK

Failure(tag) == [tag |-> tag, results |-> <<>>]

\* The scan of queryBinary from entry i on: a throw of hammingDistancePacked
\* leaves the loop and rejects the call.
RECURSIVE ScalarScan(_, _, _, _)
ScalarScan(recs, query, i, results) ==
    IF i > Len(recs)
    THEN [tag |-> "ok", results |-> results]
    ELSE
        LET d == hammingDistancePacked(query, recs[i].vector) IN
        IF ~d.ok
        THEN Failure("LengthMismatch")
        ELSE ScalarScan(recs, query, i + 1, Append(results, WithDistance(recs[i], d.value)))

queryBinaryRejectsEmptyStore(recs, query, topK) ==
    IF recs = <<>>
    THEN Failure("EmptyStore")
    ELSE
        LET scan == ScalarScan(recs, query, 1, <<>>) IN
        IF scan.tag # "ok"
        THEN scan
        ELSE [tag |-> "ok", results |-> slice(sortByDistance(scan.results), topK)]

\* What queryBinary(query, topK) settles with on a store holding recs.
queryBinary(recs, query, topK) ==
    LET scan == ScalarScan(recs, query, 1, <<>>) IN
    IF scan.tag # "ok"
    THEN scan
    ELSE [tag |-> "ok", results |-> slice(sortByDistance(scan.results), topK)]

\* ------------------------------------------------------- accelerated path

\* Words of the kernel memory the model keeps: the two regions of distanceFor
\* never reach beyond 2 * MaxWords words.
HeapWords == 2 * MaxWords

ZeroHeap == [i \in 0..(HeapWords - 1) |-> 0]

RECURSIVE BitCount(_)
BitCount(x) == IF x = 0 THEN 0 ELSE (x % 2) + BitCount(x \div 2)

\* The kernel as its interface documents it: the Hamming distance of the
\* byteLength bytes at ptrA and the byteLength bytes at ptrB.
RECURSIVE hamming_distance(_, _, _, _)
hamming_distance(h, ptrA, ptrB, byteLength) ==
    IF byteLength <= 0
    THEN 0
    ELSE BitCount(BitXor(h[ptrA \div BytesPerWord], h[ptrB \div BytesPerWord]))
            + hamming_distance(h, ptrA + BytesPerWord, ptrB + BytesPerWord,
                               byteLength - BytesPerWord)

byteLength(v) == BytesPerWord * Len(v)

\* ensureBytes(needed): grow the memory by whole pages up to needed bytes.
ensureBytes(mem, needed) ==
    IF mem < needed
    THEN mem + PageSize * (((needed - mem) + PageSize - 1) \div PageSize)
    ELSE mem

\* Uint8Array.prototype.set(bytes, offset) on the words of the heap.
HeapSet(h, v, offset) ==
    [i \in 0..(HeapWords - 1) |->
        IF i >= offset \div BytesPerWord /\ i < offset \div BytesPerWord + Len(v)
        THEN v[i - offset \div BytesPerWord + 1]
        ELSE h[i]]

\* distanceFor(target) of queryBinarySIMD. heap.set throws a RangeError when
\* the bytes do not fit the memory; [ok |-> FALSE] stands for that throw.
distanceFor(query, target, mem, h) ==
    LET len == byteLength(query)
        baseOffset == 0
        mem1 == ensureBytes(mem, baseOffset + len * 2)
    IN  IF baseOffset + len > mem1
        THEN [ok |-> FALSE, value |-> 0, mem |-> mem1, heap |-> h]
        ELSE
            LET h1 == HeapSet(h, query, baseOffset) IN
            IF baseOffset + len + byteLength(target) > mem1
            THEN [ok |-> FALSE, value |-> 0, mem |-> mem1, heap |-> h1]
            ELSE
                LET h2 == HeapSet(h1, target, baseOffset + len) IN
                [ok |-> TRUE,
                 value |-> hamming_distance(h2, baseOffset, baseOffset + len, len),
                 mem |-> mem1,
                 heap |-> h2]

\* The scan of queryBinarySIMD over the kernel, from entry i on.
RECURSIVE KernelScan(_, _, _, _, _, _)
KernelScan(recs, query, i, results, mem, h) ==
    IF i > Len(recs)
    THEN [tag |-> "ok", results |-> results, mem |-> mem, heap |-> h]
    ELSE
        LET d == distanceFor(query, recs[i].vector, mem, h) IN
        IF ~d.ok
        THEN [tag |-> "RangeError", results |-> <<>>, mem |-> d.mem, heap |-> d.heap]
        ELSE KernelScan(recs, query, i + 1,
                        Append(results, WithDistance(recs[i], d.value)), d.mem, d.heap)

\* queryBinarySIMD after `await ensureWasm()` gave exports ("exports") or null
\* ("absent"): the outcome and the kernel memory it leaves.
simdWithoutFallback(exports, recs, query, topK, mem, h) ==
    IF exports = "absent"
    THEN [outcome |-> Failure("TypeError"), mem |-> mem, heap |-> h]
    ELSE
        LET scan == KernelScan(recs, query, 1, <<>>, mem, h) IN
        [outcome |->
            IF scan.tag # "ok"
            THEN Failure(scan.tag)
            ELSE [tag |-> "ok", results |-> slice(sortByDistance(scan.results), topK)],
         mem |-> scan.mem,
         heap |-> scan.heap]

queryBinarySIMD(exports, recs, query, topK, mem, h) ==
    IF exports = "absent"
    THEN [outcome |-> queryBinary(recs, query, topK), mem |-> mem, heap |-> h]
    ELSE
        LET scan == KernelScan(recs, query, 1, <<>>, mem, h) IN
        [outcome |->
            IF scan.tag # "ok"
            THEN Failure(scan.tag)
            ELSE [tag |-> "ok", results |-> slice(sortByDistance(scan.results), topK)],
         mem |-> scan.mem,
         heap |-> scan.heap]

\* ensureWasm: `if (!wasm) wasm = loadHammingSimdWasm()` starts a load exactly
\* when no promise is cached yet.
ensureWasmRetriesAbsent(w) == w \in {"null", "absent"}

ensureWasmLoads(w) == w = "null"

\* ----------------------------------------------------------------- actions

\* The store as a call finds it, kept for the record when tracing is on.
StoreAtCall == IF tracing THEN records ELSE <<>>

NoQuery ==
    [entry |-> "none", kernel |-> "unused", probe |-> <<>>, topK |-> 0,
     calledOn |-> <<>>, scanned |-> <<>>, outcome |-> Failure("none")]

Upsert(record) ==
    /\ records' = upsert(records, record)
    /\ lastUpsert' = [lastUpsert EXCEPT ![record.id] = record]
    /\ liveIds' = liveIds \cup {record.id}
    /\ lastOp' = IF IndexOf(records, record.id) = 0 THEN "insert" ELSE "replace"
    /\ returned' = NoQuery
    /\ snapshot' = Held(snapshot, records')
    /\ UNCHANGED <<loadVars, simdCalled, waiters, memVars, kept>>
    /\ UNCHANGED <<tracing, otherThanEntityDb>>

Remove(id) ==
    /\ records' = remove(records, id)
    /\ lastUpsert' = [lastUpsert EXCEPT ![id] = None]
    /\ liveIds' = liveIds \ {id}
    /\ lastOp' = IF IndexOf(records, id) = 0 THEN "removeAbsent" ELSE "remove"
    /\ returned' = NoQuery
    /\ snapshot' = Held(snapshot, records')
    /\ UNCHANGED <<loadVars, simdCalled, waiters, memVars, kept>>
    /\ UNCHANGED <<tracing, otherThanEntityDb>>

Clear ==
    /\ records' = clear(records)
    /\ lastUpsert' = [i \in Ids |-> None]
    /\ liveIds' = {}
    /\ lastOp' = "clear"
    /\ returned' = NoQuery
    /\ snapshot' = Held(snapshot, records')
    /\ UNCHANGED <<loadVars, simdCalled, waiters, memVars, kept>>
    /\ UNCHANGED <<tracing, otherThanEntityDb>>

\* all(): the caller keeps the array it is given.
All ==
    /\ snapshot' = arrayFrom(records)
    /\ returned' = NoQuery
    /\ UNCHANGED <<records, lastUpsert, liveIds, lastOp, loadVars, simdCalled, waiters,
                   memVars, kept>>
    /\ UNCHANGED <<tracing, otherThanEntityDb>>

\* queryBinary has no await: a call runs to its result in one stretch.
QueryBinary(query, arg) ==
    /\ returned' =
        [entry |-> "queryBinary", kernel |-> "unused", probe |-> query,
         topK |-> topKOrDefault(arg), calledOn |-> StoreAtCall, scanned |-> records,
         outcome |-> queryBinary(records, query, topKOrDefault(arg))]
    /\ lastOp' = "none"
    /\ UNCHANGED <<storeVars, loadVars, simdCalled, waiters, memVars, kept>>
    /\ UNCHANGED <<tracing, otherThanEntityDb>>

\* queryBinarySIMD up to `await ensureWasm()`.
CallQueryBinarySIMD(query, arg) ==
    /\ Len(waiters) < MaxWaiters
    /\ simdCalled' =
        IF wasm \in {"exports", "absent"} \/ simdCalled = "late" THEN "late" ELSE "early"
    /\ lastOp' = "none"
    /\ IF ensureWasmLoads(wasm)
       THEN /\ wasm' = "pending"
            /\ loadPc' = "fetch"
            /\ loadCalls' = loadCalls + 1
       ELSE UNCHANGED loadVars
    /\ waiters' =
        Append(waiters,
               [query |-> query, topK |-> topKOrDefault(arg), calledOn |-> StoreAtCall])
    /\ returned' = NoQuery
    /\ UNCHANGED <<storeVars, memVars, kept>>
    /\ UNCHANGED <<tracing, otherThanEntityDb>>

\* loadHammingSimdWasm: every failure is caught and settles the promise with null.
FetchSettles(res) ==
    /\ loadPc = "fetch"
    /\ IF res = "ok"
       THEN loadPc' = "arrayBuffer" /\ wasm' = wasm
       ELSE loadPc' = "done" /\ wasm' = "absent"
    /\ returned' = NoQuery
    /\ lastOp' = "none"
    /\ UNCHANGED <<storeVars, loadCalls, simdCalled, waiters, memVars, kept>>
    /\ UNCHANGED <<tracing, otherThanEntityDb>>

ArrayBufferSettles(res) ==
    /\ loadPc = "arrayBuffer"
    /\ IF res = "ok"
       THEN loadPc' = "instantiate" /\ wasm' = wasm
       ELSE loadPc' = "done" /\ wasm' = "absent"
    /\ returned' = NoQuery
    /\ lastOp' = "none"
    /\ UNCHANGED <<storeVars, loadCalls, simdCalled, waiters, memVars, kept>>
    /\ UNCHANGED <<tracing, otherThanEntityDb>>

InstantiateSettles(res, pages) ==
    /\ loadPc = "instantiate"
    /\ loadPc' = "done"
    /\ IF res = "ok"
       THEN wasm' = "exports" /\ memBytes' = pages * PageSize /\ heap' = ZeroHeap
       ELSE wasm' = "absent" /\ UNCHANGED memVars
    /\ returned' = NoQuery
    /\ lastOp' = "none"
    /\ UNCHANGED <<storeVars, loadCalls, simdCalled, waiters, kept>>
    /\ UNCHANGED <<tracing, otherThanEntityDb>>

scanAtCallTime(calledOn, recs) == calledOn

\* After `await ensureWasm()` the loop reads the Map itself, `records.values()`,
\* as it stands when the call resumes; the loop holds no await.
scanTarget(calledOn, recs) == recs

\* The oldest suspended queryBinarySIMD call runs from the await to its result.
Resume ==
    /\ wasm \in {"exports", "absent"}
    /\ waiters # <<>>
    /\ LET w == Head(waiters)
           recs == scanTarget(w.calledOn, records)
           r == queryBinarySIMD(wasm, recs, w.query, w.topK, memBytes, heap)
       IN  /\ returned' =
                [entry |-> "queryBinarySIMD", kernel |-> wasm, probe |-> w.query,
                 topK |-> w.topK, calledOn |-> w.calledOn, scanned |-> recs,
                 outcome |-> r.outcome]
           /\ memBytes' = r.mem
           /\ heap' = r.heap
    /\ waiters' = Tail(waiters)
    /\ lastOp' = "none"
    /\ UNCHANGED <<storeVars, loadVars, simdCalled, kept>>
    /\ UNCHANGED <<tracing, otherThanEntityDb>>

\* The caller of the query that just completed keeps its result.
Keep ==
    /\ returned # NoQuery
    /\ kept' = returned
    /\ UNCHANGED <<storeVars, lastOp, loadVars, simdCalled, waiters, memVars, returned>>
    /\ UNCHANGED <<tracing, otherThanEntityDb>>

EntityDbFresh ==
    /\ records = <<>>
    /\ lastUpsert = [i \in Ids |-> None]
    /\ liveIds = {}
    /\ lastOp = "none"
    /\ wasm = "null"
    /\ loadPc = "idle"
    /\ loadCalls = 0
    /\ simdCalled = "never"
    /\ waiters = <<>>
    /\ memBytes = 0
    /\ heap = ZeroHeap
    /\ returned = NoQuery
    /\ kept = NoQuery
    /\ snapshot = NoSnapshot

EntityDbInit == EntityDbFresh /\ tracing = FALSE

\* No clock-in request has been made.
ClockInIdle ==
    /\ users = <<>>
    /\ ledger = <<>>
    /\ reqs = [r \in Reqs |-> IdleReq]

\* No pure function has been called.
PureIdle == pureCall = NoCall /\ pureResult = NoResult

\* No collaborator call is under way.
McpIdle == mcp = IdleMcp

\* Nothing has been loaded or constructed, and nothing is being.
LazyIdle ==
    /\ browserModels = IdleBrowserModels
    /\ serverModels = IdleServerModels
    /\ browserDb = IdleBrowserDb

Init == EntityDbInit /\ ClockInIdle /\ PureIdle /\ McpIdle /\ LazyIdle

\* The store alone, over every record.
NextStore ==
    \/ \E record \in Records : Upsert(record)
    \/ \E id \in Ids : Remove(id)
    \/ Clear

SpecStore == Init /\ [][NextStore]_vars

\* The store with callers that keep what all() gave them.
NextSnapshot ==
    \/ \E record \in QueryRecords : Upsert(record)
    \/ \E id \in Ids : Remove(id)
    \/ Clear
    \/ All

SpecSnapshot == Init /\ [][NextSnapshot]_vars

\* The store with scalar queries.
NextScalar ==
    \/ \E record \in QueryRecords : Upsert(record)
    \/ \E id \in Ids : Remove(id)
    \/ Clear
    \/ \E query \in Probes, arg \in TopKArgs : QueryBinary(query, arg)
    \/ Keep

SpecScalar == Init /\ [][NextScalar]_vars

\* The store with queryBinarySIMD (which falls back to queryBinary) and the
\* kernel loader, over records whose vector has a bit set.
Next ==
    \/ \E record \in {r \in QueryRecords : r.vector # Uniform(1, 0)} : Upsert(record)
    \/ \E id \in Ids : Remove(id)
    \/ Clear
    \/ \E query \in Probes, arg \in FewTopKArgs : CallQueryBinarySIMD(query, arg)
    \/ \E res \in {"ok", "notOk", "rejected"} : FetchSettles(res)
    \/ \E res \in {"ok", "rejected"} : ArrayBufferSettles(res)
    \/ \E res \in {"ok", "rejected"}, pages \in 0..1 : InstantiateSettles(res, pages)
    \/ Resume

Spec == Init /\ [][Next]_vars

\* Both query paths side by side over every probe and topK argument, one
\* queryBinarySIMD call at a time, on a store of at most one-word records.
NextBoth ==
    \/ \E record \in {r \in QueryRecords : r.vector = LowBit(1)} : Upsert(record)
    \/ \E id \in Ids : Remove(id)
    \/ Clear
    \/ \E query \in Probes, arg \in TopKArgs : QueryBinary(query, arg)
    \/ \E query \in Probes, arg \in TopKArgs :
            waiters = <<>> /\ CallQueryBinarySIMD(query, arg)
    \/ \E res \in {"ok", "notOk", "rejected"} : FetchSettles(res)
    \/ \E res \in {"ok", "rejected"} : ArrayBufferSettles(res)
    \/ \E res \in {"ok", "rejected"}, pages \in 0..1 : InstantiateSettles(res, pages)
    \/ Resume

SpecBoth == Init /\ [][NextBoth]_vars

\* Both query paths with the store of each call on record, one queryBinarySIMD
\* call at a time, on a store of one-word records.
InitAsync ==
    EntityDbFresh /\ tracing = TRUE /\ ClockInIdle /\ PureIdle /\ McpIdle /\ LazyIdle

NextAsync ==
    \/ \E record \in {r \in QueryRecords : Len(r.vector) = 1} : Upsert(record)
    \/ \E id \in Ids : Remove(id)
    \/ Clear
    \/ \E arg \in FewTopKArgs : QueryBinary(Uniform(1, 0), arg)
    \/ \E arg \in FewTopKArgs : waiters = <<>> /\ CallQueryBinarySIMD(Uniform(1, 0), arg)
    \/ \E res \in {"ok", "rejected"} : FetchSettles(res)
    \/ ArrayBufferSettles("ok")
    \/ \E pages \in 0..1 : InstantiateSettles("ok", pages)
    \/ Resume

SpecAsync == InitAsync /\ [][NextAsync]_vars

\* ------------------------------------------------- face matching (floats)

\* Embeddings are vectors of numbers; the model takes small integers.
RECURSIVE DotFrom(_, _, _)
DotFrom(a, b, i) == IF i > Len(a) THEN 0 ELSE a[i] * b[i] + DotFrom(a, b, i + 1)

\* s > t
SimGreater(s, t) ==
    IF s.num >= 0 /\ t.num < 0 THEN TRUE
    ELSE IF s.num < 0 /\ t.num >= 0 THEN FALSE
    ELSE IF s.num >= 0
         THEN s.num * s.num * t.den2 > t.num * t.num * s.den2
         ELSE s.num * s.num * t.den2 < t.num * t.num * s.den2

SimAtLeastNothing(s, th) == TRUE

\* s >= th, for a threshold th = num / den with num, den > 0
SimAtLeast(s, th) ==
    s.num >= 0 /\ th.den * th.den * s.num * s.num >= th.num * th.num * s.den2

\* cosineSimilarity of vectorUtils; [ok |-> FALSE] stands for its throw.
cosineSimilarity(a, b) ==
    IF Len(a) # Len(b)
    THEN [ok |-> FALSE, value |-> ZeroSimilarity]
    ELSE
        LET dotProduct == DotFrom(a, b, 1)
            normA2 == DotFrom(a, a, 1)
            normB2 == DotFrom(b, b, 1)
        IN  IF normA2 = 0 \/ normB2 = 0
            THEN [ok |-> TRUE, value |-> ZeroSimilarity]
            ELSE [ok |-> TRUE, value |-> Similarity(dotProduct, normA2 * normB2)]

\* The loop of findBestFaceMatch from candidate i on.
RECURSIVE BestFrom(_, _, _, _, _, _)
BestFrom(queryEmbedding, candidates, threshold, i, bestMatch, bestSimilarity) ==
    IF i > Len(candidates)
    THEN [ok |-> TRUE, best |-> bestMatch]
    ELSE
        LET sim == cosineSimilarity(queryEmbedding, candidates[i].embedding) IN
        IF ~sim.ok
        THEN [ok |-> FALSE, best |-> NoBest]
        ELSE IF SimGreater(sim.value, bestSimilarity)
        THEN BestFrom(queryEmbedding, candidates, threshold, i + 1,
                      [present |-> TRUE, id |-> candidates[i].id,
                       similarity |-> sim.value,
                       match |-> SimAtLeast(sim.value, threshold)],
                      sim.value)
        ELSE BestFrom(queryEmbedding, candidates, threshold, i + 1,
                      bestMatch, bestSimilarity)

\* findBestFaceMatch: NoBest stands for null, [ok |-> FALSE] for a throw.
findBestFaceMatch(queryEmbedding, candidates, threshold) ==
    IF Len(candidates) = 0
    THEN [ok |-> TRUE, best |-> NoBest]
    ELSE BestFrom(queryEmbedding, candidates, threshold, 1, NoBest, ZeroSimilarity)

\* ------------------------------------------- callMCPTool: what it retries

isTimeout(message) ==
    \/ includes(message, "Timeout")
    \/ includes(message, "UND_ERR_HEADERS_TIMEOUT")
    \/ includes(message, "The operation was aborted")

\* if (attempt < maxRetries && isTimeout)
retryAllowed(attempt, message) == attempt < maxRetries /\ isTimeout(message)

\* ------------------------------------------------------ clock-in handler

\* The thresholds of the handler: 0.6 on the userId path, 0.1 on the automatic.
UserIdThreshold == [num |-> 3, den |-> 5]

AutoThreshold == [num |-> 1, den |-> 10]

\* if (!bestMatch || !bestMatch.match): no matching user
matchedWhenBelow(bestMatch) == bestMatch.present /\ ~bestMatch.match

matched(bestMatch) == ~(~bestMatch.present \/ ~bestMatch.match)

\* lastLog?.status === "CLOCK_IN" ? "CLOCK_OUT" : "CLOCK_IN"; "" stands for no lastLog
nextStatusInUnlessOut(lastStatus) == IF lastStatus = "CLOCK_OUT" THEN "CLOCK_IN" ELSE "CLOCK_OUT"

nextStatus(lastStatus) == IF lastStatus = "CLOCK_IN" THEN "CLOCK_OUT" ELSE "CLOCK_IN"

\* prisma.user.findUnique({ where: { id } }): the index of the user, 0 for null
FindUnique(table, id) ==
    IF \E i \in 1..Len(table) : table[i].id = id
    THEN CHOOSE i \in 1..Len(table) : table[i].id = id
    ELSE 0

\* prisma.attendanceLog.findFirst({ where: { userId }, orderBy: { timestamp: "desc" } })
\* as the status of the entry found, "" for null
LastStatus(log, userId) ==
    LET own == {i \in 1..Len(log) : log[i].userId = userId} IN
    IF own = {} THEN "" ELSE log[CHOOSE i \in own : \A j \in own : j <= i].status

\* users.map((user) => ({ id, name, embedding: user.faceEmbedding }))
Candidates(table) == [i \in 1..Len(table) |-> [id |-> table[i].id, embedding |-> table[i].faceEmbedding]]

Respond(req, response) == [req EXCEPT !.pc = "done", !.response = response]

\* POST up to `await generateFaceEmbedding(faceImage)`. body is "badJson" when
\* request.json() throws, otherwise whether faceImage is there.
Start(r, body, userId) ==
    /\ reqs[r].pc \in {"idle", "done"}
    /\ Len(ledger) < MaxLedger
    /\ reqs' = [reqs EXCEPT ![r] =
            IF body = "badJson"
            THEN Respond(IdleReq, "500 Internal server error")
            ELSE IF body = "noImage"
            THEN Respond(IdleReq, "400 Missing required field")
            ELSE [IdleReq EXCEPT !.pc = "generateFaceEmbedding", !.userId = userId]]
    /\ UNCHANGED <<otherThanClockIn, users, ledger>>

\* generateFaceEmbedding settles: embedding is <<>> when it throws.
EmbeddingSettles(r, ok, embedding) ==
    /\ reqs[r].pc = "generateFaceEmbedding"
    /\ reqs' = [reqs EXCEPT ![r] =
            IF ~ok
            THEN Respond(reqs[r], "400 Failed to process face image")
            ELSE [reqs[r] EXCEPT !.queryEmbedding = embedding,
                           !.pc = IF reqs[r].userId # "" THEN "findUnique" ELSE "findMany"]]
    /\ UNCHANGED <<otherThanClockIn, users, ledger>>

\* userId path: prisma.user.findUnique settles.
FindUniqueSettles(r) ==
    /\ reqs[r].pc = "findUnique"
    /\ reqs' = [reqs EXCEPT ![r] =
            IF FindUnique(users, reqs[r].userId) = 0
            THEN Respond(reqs[r], "404 User not found")
            ELSE [reqs[r] EXCEPT !.user = reqs[r].userId, !.pc = "compareFaceEmbeddings"]]
    /\ UNCHANGED <<otherThanClockIn, users, ledger>>

\* userId path: compareFaceEmbeddings settles with the similarity the
\* collaborator computed, or throws; then the threshold test.
CompareSettles(r, ok, similarity) ==
    /\ reqs[r].pc = "compareFaceEmbeddings"
    /\ reqs' = [reqs EXCEPT ![r] =
            IF ~ok
            THEN Respond(reqs[r], "500 Internal server error")
            ELSE IF ~SimAtLeast(similarity, UserIdThreshold)
            THEN Respond([reqs[r] EXCEPT !.similarity = similarity],
                         "400 Face does not match registered user")
            ELSE [reqs[r] EXCEPT !.similarity = similarity, !.pc = "findFirst"]]
    /\ UNCHANGED <<otherThanClockIn, users, ledger>>

\* automatic path: prisma.user.findMany settles; findBestFaceMatch runs and
\* the debug loop makes its first compareFaceEmbeddings call.
FindManySettles(r) ==
    /\ reqs[r].pc = "findMany"
    /\ reqs' = [reqs EXCEPT ![r] =
            IF Len(users) = 0
            THEN Respond(reqs[r], "404 No registered users found")
            ELSE
                LET found == findBestFaceMatch(reqs[r].queryEmbedding, Candidates(users),
                                               AutoThreshold)
                IN  IF ~found.ok
                    THEN Respond(reqs[r], "500 Internal server error")
                    ELSE [reqs[r] EXCEPT !.bestMatch = found.best, !.index = 0,
                                   !.pc = "debugCompare"]]
    /\ UNCHANGED <<otherThanClockIn, users, ledger>>

\* automatic path: one compareFaceEmbeddings call of the debug loop settles;
\* after the last candidate the match decision is taken.
DebugCompareSettles(r, ok) ==
    /\ reqs[r].pc = "debugCompare"
    /\ reqs' = [reqs EXCEPT ![r] =
            IF ~ok
            THEN Respond(reqs[r], "500 Internal server error")
            ELSE IF reqs[r].index + 1 < Len(users)
            THEN [reqs[r] EXCEPT !.index = reqs[r].index + 1]
            ELSE IF ~matched(reqs[r].bestMatch)
            THEN Respond([reqs[r] EXCEPT !.index = reqs[r].index + 1], "400 No matching user found")
            ELSE [reqs[r] EXCEPT !.index = reqs[r].index + 1, !.user = reqs[r].bestMatch.id,
                           !.similarity = reqs[r].bestMatch.similarity, !.pc = "findFirst"]]
    /\ UNCHANGED <<otherThanClockIn, users, ledger>>

\* prisma.attendanceLog.findFirst settles; the status is decided and
\* logAttendance is called.
FindFirstSettles(r) ==
    /\ reqs[r].pc = "findFirst"
    /\ reqs' = [reqs EXCEPT ![r] =
            [reqs[r] EXCEPT !.lastStatus = LastStatus(ledger, reqs[r].user),
                      !.status = nextStatus(LastStatus(ledger, reqs[r].user)),
                      !.pc = "logAttendance"]]
    /\ UNCHANGED <<otherThanClockIn, users, ledger>>

\* One attempt of the attendance.log call that logAttendance makes through
\* callMCPTool settles: the ledger created the entry or not, and the attempt
\* gave the result (res = "ok") or failed with the message res. callMCPTool
\* sends the request again after a failure it retries; otherwise
\* logAttendance returns or throws, and the handler responds.
LogSettles(r, created, res) ==
    /\ reqs[r].pc = "logAttendance"
    /\ res = "ok" => created
    /\ ledger' =
        IF created
        THEN Append(ledger, [userId |-> reqs[r].user, status |-> reqs[r].status])
        ELSE ledger
    /\ LET req == [reqs[r] EXCEPT !.appended = reqs[r].appended + (IF created THEN 1 ELSE 0)]
       IN  reqs' = [reqs EXCEPT ![r] =
                IF res = "ok" THEN Respond(req, "200 Success")
                ELSE IF retryAllowed(req.logAttempt, res)
                THEN [req EXCEPT !.logAttempt = req.logAttempt + 1]
                ELSE Respond(req, "500 Internal server error")]
    /\ UNCHANGED <<otherThanClockIn, users>>

\* A database with some registered users, and no clock-in yet.
ClockInInit ==
    /\ users \in UserTables
    /\ ledger = <<>>
    /\ reqs = [r \in Reqs |-> IdleReq]

\* One clock-in request at a time.
NextClockIn ==
    \/ \E body \in {"badJson", "noImage", "image"}, userId \in {""} \cup RequestUserIds :
            Start("r1", body, userId)
    \/ \E embedding \in QueryEmbeddings : EmbeddingSettles("r1", TRUE, embedding)
    \/ EmbeddingSettles("r1", FALSE, <<>>)
    \/ FindUniqueSettles("r1")
    \/ \E similarity \in RemoteSimilarities : CompareSettles("r1", TRUE, similarity)
    \/ CompareSettles("r1", FALSE, ZeroSimilarity)
    \/ FindManySettles("r1")
    \/ \E ok \in BOOLEAN : DebugCompareSettles("r1", ok)
    \/ FindFirstSettles("r1")
    \/ \E created \in BOOLEAN, res \in LogResults : LogSettles("r1", created, res)

InitClockIn == EntityDbInit /\ ClockInInit /\ PureIdle /\ McpIdle /\ LazyIdle

SpecClockIn == InitClockIn /\ [][NextClockIn]_vars

\* Registered users who all have the face of the probe.
RaceTables == {t \in UserTables : \A i \in 1..Len(t) : t[i].faceEmbedding = <<1, 0>>}

InitClockInRace ==
    /\ EntityDbInit
    /\ users \in RaceTables
    /\ ledger = <<>>
    /\ reqs = [r \in Reqs |-> IdleReq]
    /\ PureIdle
    /\ McpIdle
    /\ LazyIdle

\* Requests that overlap: the handler of one runs between the awaits of the
\* other. No attempt of attendance.log fails with a timeout here, so
\* callMCPTool sends every attendance.log request once.
NextClockInRace ==
    \/ \E r \in Reqs, userId \in {"", "u1"} : Start(r, "image", userId)
    \/ \E r \in Reqs : EmbeddingSettles(r, TRUE, <<1, 0>>)
    \/ \E r \in Reqs : FindUniqueSettles(r)
    \/ \E r \in Reqs, similarity \in RemoteSimilarities : CompareSettles(r, TRUE, similarity)
    \/ \E r \in Reqs : FindManySettles(r)
    \/ \E r \in Reqs : DebugCompareSettles(r, TRUE)
    \/ \E r \in Reqs : FindFirstSettles(r)
    \/ \E r \in Reqs, created \in BOOLEAN, res \in {"ok", "fetch failed"} :
            LogSettles(r, created, res)

SpecClockInRace == InitClockInRace /\ [][NextClockInRace]_vars

\* ------------------------------------------------------- pure functions

BitOr(a, b) == a + b - BitAnd(a, b)

\* threshold: number = 0
thresholdOrDefault(arg) == IF arg.given THEN arg.value ELSE 0

wordCompleteWhenFull(bitIndexInWord, i, bitCount) == bitIndexInWord = WordBits

\* if (bitIndexInWord === 64 || i === bitCount - 1)
wordComplete(bitIndexInWord, i, bitCount) == bitIndexInWord = WordBits \/ i = bitCount - 1

\* The loop of binarizeEmbedding from index i on (i counts from 0).
RECURSIVE BinarizeFrom(_, _, _, _, _, _, _)
BinarizeFrom(embedding, threshold, i, words, wordIndex, bitIndexInWord, currentWord) ==
    IF i >= Len(embedding)
    THEN words
    ELSE
        LET bit == IF embedding[i + 1] > threshold THEN 1 ELSE 0
            word == IF bit = 1 THEN BitOr(currentWord, 2 ^ bitIndexInWord) ELSE currentWord
        IN  IF wordComplete(bitIndexInWord + 1, i, Len(embedding))
            THEN BinarizeFrom(embedding, threshold, i + 1,
                              IF wordIndex + 1 \in DOMAIN words
                              THEN [words EXCEPT ![wordIndex + 1] = word % (2 ^ WordBits)]
                              ELSE words,
                              wordIndex + 1, 0, 0)
            ELSE BinarizeFrom(embedding, threshold, i + 1, words, wordIndex,
                              bitIndexInWord + 1, word)

\* binarizeEmbedding: it has no throw of its own.
binarizeEmbedding(embedding, threshold) ==
    LET bitCount == Len(embedding)
        numWords == (bitCount + WordBits - 1) \div WordBits
    IN  BinarizeFrom(embedding, threshold, 0, [k \in 1..numWords |-> 0], 0, 0, 0)

\* The call drawn at the start is made.
BinarizeEmbedding ==
    /\ pureCall.fn = "binarizeEmbedding"
    /\ pureResult = NoResult
    /\ pureResult' =
        [tag |-> "ok",
         value |-> binarizeEmbedding(pureCall.embedding, thresholdOrDefault(pureCall.threshold))]
    /\ UNCHANGED <<pureCall, otherThanPure>>

HammingDistancePacked ==
    /\ pureCall.fn = "hammingDistancePacked"
    /\ pureResult = NoResult
    /\ LET d == hammingDistancePacked(pureCall.a, pureCall.b) IN
        pureResult' = IF d.ok THEN [tag |-> "ok", value |-> d.value]
                      ELSE [tag |-> "LengthMismatch", value |-> 0]
    /\ UNCHANGED <<pureCall, otherThanPure>>

\* queryBinary(query) of a store that holds the one record "a".
QueryOneRecord ==
    /\ pureCall.fn = "queryBinary"
    /\ pureResult = NoResult
    /\ LET recs == <<[id |-> "a", vector |-> pureCall.vector, metadata |-> "m1"]>>
           res == queryBinary(recs, pureCall.query, DefaultTopK)
       IN  pureResult' = [tag |-> res.tag, value |-> res.results]
    /\ UNCHANGED <<pureCall, otherThanPure>>

PureInit == pureCall \in PureCalls /\ pureResult = NoResult

NextPure ==
    \/ BinarizeEmbedding
    \/ HammingDistancePacked
    \/ QueryOneRecord

InitPure == EntityDbInit /\ ClockInIdle /\ PureInit /\ McpIdle /\ LazyIdle

SpecPure == InitPure /\ [][NextPure]_vars

\* ----------------------------------------------------------- callMCPTool

FinalErrorWithoutMessage(lastError) ==
    [kind |-> "error", prefix |-> "Failed to call MCP tool: ", message |-> "unknown error"]

\* throw new Error(`Failed to call MCP tool: ${lastError?.message || "unknown error"}`)
FinalError(lastError) ==
    [kind |-> "error", prefix |-> "Failed to call MCP tool: ",
     message |-> IF ~lastError.caught \/ lastError.message = ""
                 THEN "unknown error" ELSE lastError.message]

\* The catch block for an error of this message: sleep before the next
\* attempt, or break and throw.
Catch(call, message) ==
    LET caught == [call EXCEPT !.lastError = [caught |-> TRUE, message |-> message],
                               !.errors = Append(call.errors, message)]
    IN  IF retryAllowed(call.attempt, message)
        THEN [caught EXCEPT !.pc = "sleep"]
        ELSE [caught EXCEPT !.pc = "thrown", !.value = FinalError(caught.lastError)]

\* callMCPTool up to the first `await fetch(...)`.
CallMCPTool(toolName) ==
    /\ mcp.pc \in {"idle", "returned", "thrown"}
    /\ mcp' = [IdleMcp EXCEPT !.pc = "fetch", !.toolName = toolName, !.requests = 1]
    /\ UNCHANGED otherThanMcp

\* fetch settles: with a response, ok or not, or with a rejection.
McpFetchSettles(res) ==
    /\ mcp.pc = "fetch"
    /\ mcp' =
        IF res = "ok" THEN [mcp EXCEPT !.pc = "json"]
        ELSE Catch(mcp, res)
    /\ UNCHANGED otherThanMcp

\* The 5 minute timer fires first: controller.abort() rejects the fetch.
TimerAborts(message) ==
    /\ mcp.pc = "fetch"
    /\ mcp' = Catch(mcp, message)
    /\ UNCHANGED otherThanMcp

\* response.json() settles: with the result, which callMCPTool returns, or
\* with a rejection.
JsonSettles(res) ==
    /\ mcp.pc = "json"
    /\ mcp' =
        IF res = "ok"
        THEN [mcp EXCEPT !.pc = "returned",
                         !.value = [kind |-> "result", attempt |-> mcp.attempt]]
        ELSE Catch(mcp, res)
    /\ UNCHANGED otherThanMcp

\* The pause of 500 * (attempt + 1) ms ends: attempt++ and the loop test.
SleepEnds ==
    /\ mcp.pc = "sleep"
    /\ mcp' =
        IF mcp.attempt + 1 <= maxRetries
        THEN [mcp EXCEPT !.pc = "fetch", !.attempt = mcp.attempt + 1,
                         !.requests = mcp.requests + 1]
        ELSE [mcp EXCEPT !.pc = "thrown", !.attempt = mcp.attempt + 1,
                         !.value = FinalError(mcp.lastError)]
    /\ UNCHANGED otherThanMcp

NextMcp ==
    \/ \E toolName \in ToolNames : CallMCPTool(toolName)
    \/ \E res \in {"ok"} \cup NotOkErrors \cup FetchErrors : McpFetchSettles(res)
    \/ \E message \in AbortErrors : TimerAborts(message)
    \/ \E res \in {"ok"} \cup JsonErrors : JsonSettles(res)
    \/ SleepEnds

SpecMcp == Init /\ [][NextMcp]_vars

\* Every await of callMCPTool settles: the fetch by a response, a rejection or
\* the abort of its timer, response.json() by the body or the runtime's body
\* timeout, the pause by its timer.
McpFairness ==
    /\ WF_vars(\E res \in {"ok"} \cup NotOkErrors \cup FetchErrors : McpFetchSettles(res))
    /\ WF_vars(\E message \in AbortErrors : TimerAborts(message))
    /\ WF_vars(\E res \in {"ok"} \cup JsonErrors : JsonSettles(res))
    /\ WF_vars(SleepEnds)

SpecMcpFair == Init /\ [][NextMcp]_vars /\ McpFairness

\* ------------------------------- clientFaceEmbedding.ts: loadModels

loadingPromiseKept(loadingPromise) == loadingPromise

\* catch: `loadingPromise = null`
loadingPromiseAfterFailure(loadingPromise) == 0

\* A call of loadModels by caller c from fn, up to the promise it returns.
browserLoadModels(b, c, fn) ==
    IF b.modelsLoaded
    THEN [b EXCEPT !.callers[c] =
            [pc |-> "loaded", fn |-> fn, attempt |-> 0, joinedSettled |-> FALSE]]
    ELSE IF b.loadingPromise # 0
    THEN [b EXCEPT !.callers[c] =
            [pc |-> "awaiting", fn |-> fn, attempt |-> b.loadingPromise,
             joinedSettled |-> b.promises[b.loadingPromise] # "pending"]]
    ELSE [b EXCEPT !.loadingPromise = b.starts + 1,
                   !.promises[b.starts + 1] = "pending",
                   !.pc = "loadFaceApi",
                   !.starts = b.starts + 1,
                   !.callers[c] =
                        [pc |-> "awaiting", fn |-> fn, attempt |-> b.starts + 1,
                         joinedSettled |-> FALSE]]

\* The catch block of the load under way, which is attempt b.starts.
browserLoadFails(b) ==
    [b EXCEPT !.modelsLoaded = FALSE,
              !.loadingPromise = loadingPromiseAfterFailure(b.loadingPromise),
              !.promises[b.starts] = "rejected",
              !.pc = "idle"]

\* Whether a call of loadModels stays within MaxLoads load attempts.
BrowserMayCall(b) == b.modelsLoaded \/ b.loadingPromise # 0 \/ b.starts < MaxLoads

BrowserCallerFree(c) == browserModels.callers[c].pc \in {"idle", "loaded", "failed"}

PreloadModels(c) ==
    /\ BrowserCallerFree(c)
    /\ BrowserMayCall(browserModels)
    /\ browserModels' = browserLoadModels(browserModels, c, "preloadModels")
    /\ UNCHANGED <<otherThanLazy, serverModels, browserDb>>

\* generateFaceEmbedding up to its `await loadFaceApi()`.
BrowserGenerateFaceEmbedding(c) ==
    /\ BrowserCallerFree(c)
    /\ browserModels' =
        [browserModels EXCEPT !.callers[c] =
            [pc |-> "loadFaceApi", fn |-> "generateFaceEmbedding", attempt |-> 0,
             joinedSettled |-> FALSE]]
    /\ UNCHANGED <<otherThanLazy, serverModels, browserDb>>

\* loadFaceApi gives the cached module when there is one; otherwise its
\* import settles either way. generateFaceEmbedding goes on to loadModels().
CallerFaceApiSettles(c, ok) ==
    /\ browserModels.callers[c].pc = "loadFaceApi"
    /\ browserModels.faceapi => ok
    /\ IF ok
       THEN /\ BrowserMayCall(browserModels)
            /\ browserModels' =
                browserLoadModels([browserModels EXCEPT !.faceapi = TRUE], c,
                                  "generateFaceEmbedding")
       ELSE browserModels' = [browserModels EXCEPT !.callers[c].pc = "failed"]
    /\ UNCHANGED <<otherThanLazy, serverModels, browserDb>>

\* The load under way: `await loadFaceApi()`.
LoaderFaceApiSettles(ok) ==
    /\ browserModels.pc = "loadFaceApi"
    /\ browserModels.faceapi => ok
    /\ browserModels' =
        IF ok
        THEN [browserModels EXCEPT !.faceapi = TRUE, !.pc = "loadFromUri"]
        ELSE browserLoadFails(browserModels)
    /\ UNCHANGED <<otherThanLazy, serverModels, browserDb>>

\* The load under way: `await Promise.all([...loadFromUri])`.
LoadFromUriSettles(ok) ==
    /\ browserModels.pc = "loadFromUri"
    /\ browserModels' =
        IF ok
        THEN [browserModels EXCEPT !.modelsLoaded = TRUE,
                                   !.promises[browserModels.starts] = "fulfilled",
                                   !.pc = "idle"]
        ELSE browserLoadFails(browserModels)
    /\ UNCHANGED <<otherThanLazy, serverModels, browserDb>>

\* A caller's await of the promise loadModels returned ends as the promise
\* did. preloadModels catches the failure and returns; generateFaceEmbedding
\* rethrows it.
BrowserCallerResumes(c) ==
    /\ browserModels.callers[c].pc = "awaiting"
    /\ browserModels.promises[browserModels.callers[c].attempt] \in {"fulfilled", "rejected"}
    /\ browserModels' =
        [browserModels EXCEPT !.callers[c].pc =
            IF browserModels.promises[browserModels.callers[c].attempt] = "fulfilled"
            THEN "loaded" ELSE "failed"]
    /\ UNCHANGED <<otherThanLazy, serverModels, browserDb>>

NextBrowserModels ==
    \/ \E c \in Callers : PreloadModels(c)
    \/ \E c \in Callers : BrowserGenerateFaceEmbedding(c)
    \/ \E c \in Callers, ok \in BOOLEAN : CallerFaceApiSettles(c, ok)
    \/ \E ok \in BOOLEAN : LoaderFaceApiSettles(ok)
    \/ \E ok \in BOOLEAN : LoadFromUriSettles(ok)
    \/ \E c \in Callers : BrowserCallerResumes(c)

SpecBrowserModels == Init /\ [][NextBrowserModels]_vars

\* ------------------------------- mcp/tools/faceEmbedding.ts: loadModels

\* A call of loadModels up to its first await: it returns when modelsLoaded,
\* throws when the models directory is missing, and otherwise begins
\* loading the first of the three nets from disk.
serverLoadModels(s, c, fn, dirExists) ==
    IF s.modelsLoaded
    THEN [s EXCEPT !.callers[c] = [pc |-> "loaded", fn |-> fn]]
    ELSE IF ~dirExists
    THEN [s EXCEPT !.callers[c] = [pc |-> "failed", fn |-> fn]]
    ELSE [s EXCEPT !.begun = s.begun + 1,
                   !.callers[c] = [pc |-> "tinyFaceDetector", fn |-> fn]]

ServerMayCall(s) == s.modelsLoaded \/ s.begun < MaxLoads

ServerCallerFree(c) == serverModels.callers[c].pc \in {"idle", "loaded", "failed"}

ServerGenerateFaceEmbedding(c, dirExists) ==
    /\ ServerCallerFree(c)
    /\ ServerMayCall(serverModels)
    /\ serverModels' = serverLoadModels(serverModels, c, "generateFaceEmbedding", dirExists)
    /\ UNCHANGED <<otherThanLazy, browserModels, browserDb>>

WarmupFaceApi(c, dirExists) ==
    /\ ServerCallerFree(c)
    /\ ServerMayCall(serverModels)
    /\ serverModels' = serverLoadModels(serverModels, c, "warmupFaceApi", dirExists)
    /\ UNCHANGED <<otherThanLazy, browserModels, browserDb>>

\* One of the three loadFromDisk awaits of caller c's loadModels settles; a
\* failure is caught and rethrown, and modelsLoaded is set after the third.
NetSettles(c, net, then, ok) ==
    /\ serverModels.callers[c].pc = net
    /\ serverModels' =
        IF ~ok
        THEN [serverModels EXCEPT !.callers[c].pc = "failed"]
        ELSE IF then = "loaded"
        THEN [serverModels EXCEPT !.modelsLoaded = TRUE,
                                  !.completed = serverModels.completed + 1,
                                  !.callers[c].pc = "loaded"]
        ELSE [serverModels EXCEPT !.callers[c].pc = then]
    /\ UNCHANGED <<otherThanLazy, browserModels, browserDb>>

TinyFaceDetectorSettles(c, ok) == NetSettles(c, "tinyFaceDetector", "faceLandmark68Net", ok)

FaceLandmark68NetSettles(c, ok) == NetSettles(c, "faceLandmark68Net", "faceRecognitionNet", ok)

FaceRecognitionNetSettles(c, ok) == NetSettles(c, "faceRecognitionNet", "loaded", ok)

NextServerModels ==
    \/ \E c \in Callers, dirExists \in BOOLEAN : ServerGenerateFaceEmbedding(c, dirExists)
    \/ \E c \in Callers, dirExists \in BOOLEAN : WarmupFaceApi(c, dirExists)
    \/ \E c \in Callers, ok \in BOOLEAN : TinyFaceDetectorSettles(c, ok)
    \/ \E c \in Callers, ok \in BOOLEAN : FaceLandmark68NetSettles(c, ok)
    \/ \E c \in Callers, ok \in BOOLEAN : FaceRecognitionNetSettles(c, ok)

SpecServerModels == Init /\ [][NextServerModels]_vars

\* ------------------------------------------- browserEntityDb.ts: EntityDB

\* initEntityDB called by getter c. A new initialisation constructs the
\* EntityDB before its only await; when the constructor throws, the catch sets
\* initPromise to null and rethrows, and the assignment of the rejected
\* promise to initPromise comes after that.
initEntityDB(d, c, mark, constructs) ==
    LET waitOn(p) == [mark EXCEPT !.pc = "awaiting", !.promise = p]
        n == d.inits + 1
    IN  IF d.dbInstance # 0
        THEN [d EXCEPT !.getters[c] = [mark EXCEPT !.pc = "got", !.got = d.dbInstance]]
        ELSE IF d.initPromise # 0
        THEN [d EXCEPT !.getters[c] =
                IF d.promises[d.initPromise] = "rejected"
                THEN [mark EXCEPT !.pc = "failed", !.promise = d.initPromise]
                ELSE waitOn(d.initPromise)]
        ELSE [d EXCEPT !.inits = n,
                       !.initPromise = n,
                       !.promises[n] = IF constructs THEN "pending" ELSE "rejected",
                       !.getters[c] =
                            IF constructs THEN waitOn(n)
                            ELSE [mark EXCEPT !.pc = "failed", !.promise = n]]

\* Whether a call of getEntityDB stays within MaxLoads initialisations.
GetterMayCall(d) == d.dbInstance # 0 \/ d.initPromise # 0 \/ d.inits < MaxLoads

\* getEntityDB up to its await: `if (!dbInstance) await initEntityDB()`. The
\* call is marked when it is the first since a clearEntityDB resolved.
GetEntityDB(c, constructs) ==
    /\ browserDb.getters[c].pc \in {"idle", "got", "failed"}
    /\ GetterMayCall(browserDb)
    /\ LET mark == [pc |-> "idle", promise |-> 0, got |-> 0,
                    first |-> browserDb.nextGet,
                    existed |-> browserDb.atResolve.inits]
       IN  browserDb' =
             [initEntityDB(browserDb, c, mark, constructs) EXCEPT !.nextGet = FALSE]
    /\ UNCHANGED <<otherThanLazy, browserModels, serverModels>>

\* The 100 ms timer of initialisation n fires, timers firing in the order they
\* were set: `dbInstance = db`, the promise is fulfilled, and every getEntityDB
\* waiting on it resumes and returns dbInstance.
InitTimerFires(n) ==
    /\ browserDb.promises[n] = "pending"
    /\ \A m \in 1..(n - 1) : browserDb.promises[m] # "pending"
    /\ browserDb' =
        [browserDb EXCEPT
            !.dbInstance = n,
            !.promises[n] = "fulfilled",
            !.getters =
                [c \in Callers |->
                    IF browserDb.getters[c].pc = "awaiting" /\ browserDb.getters[c].promise = n
                    THEN [browserDb.getters[c] EXCEPT !.pc = "got", !.got = n]
                    ELSE browserDb.getters[c]]]
    /\ UNCHANGED <<otherThanLazy, browserModels, serverModels>>

\* What a clearEntityDB that resolves now finds in dbInstance and initPromise.
ResolvedWith(d) ==
    [dbInstance |-> d.dbInstance, initPromise |-> d.initPromise, inits |-> d.inits,
     resolved |-> TRUE]

\* The promise clearEntityDB awaits is resolved, if it is still pending.
resolveClear(d) ==
    IF d.clearPc = "deleting"
    THEN [d EXCEPT !.clearPc = "resolved", !.atResolve = ResolvedWith(d), !.nextGet = TRUE]
    ELSE d

\* clearEntityDB up to its await, in a browser: one delete request at a time.
ClearEntityDB ==
    /\ browserDb.clearPc \in {"idle", "resolved", "rejected"}
    /\ browserDb.request \in {"none", "success", "error"}
    /\ ~browserDb.timer
    /\ browserDb' =
        [browserDb EXCEPT !.clearPc = "deleting", !.request = "pending", !.nextGet = FALSE]
    /\ UNCHANGED <<otherThanLazy, browserModels, serverModels>>

\* deleteRequest.onsuccess, which also follows a blocked event once the
\* connections that blocked the delete are closed.
DeleteSucceeds ==
    /\ browserDb.request \in {"pending", "blocked"}
    /\ browserDb' =
        resolveClear([browserDb EXCEPT !.dbInstance = 0, !.initPromise = 0,
                                       !.request = "success"])
    /\ UNCHANGED <<otherThanLazy, browserModels, serverModels>>

\* deleteRequest.onerror
DeleteFails ==
    /\ browserDb.request \in {"pending", "blocked"}
    /\ browserDb' =
        [browserDb EXCEPT !.request = "error",
                          !.clearPc = IF browserDb.clearPc = "deleting" THEN "rejected"
                                      ELSE browserDb.clearPc]
    /\ UNCHANGED <<otherThanLazy, browserModels, serverModels>>

\* deleteRequest.onblocked: `setTimeout(() => resolve(undefined), 1000)`
DeleteBlocked ==
    /\ browserDb.request = "pending"
    /\ browserDb' = [browserDb EXCEPT !.request = "blocked", !.timer = TRUE]
    /\ UNCHANGED <<otherThanLazy, browserModels, serverModels>>

BlockedTimerFires ==
    /\ browserDb.timer
    /\ browserDb' = resolveClear([browserDb EXCEPT !.timer = FALSE])
    /\ UNCHANGED <<otherThanLazy, browserModels, serverModels>>

NextBrowserDb ==
    \/ \E c \in Getters, constructs \in BOOLEAN : GetEntityDB(c, constructs)
    \/ \E n \in 1..MaxLoads : InitTimerFires(n)
    \/ ClearEntityDB
    \/ DeleteSucceeds
    \/ DeleteFails
    \/ DeleteBlocked
    \/ BlockedTimerFires

SpecBrowserDb == Init /\ [][NextBrowserDb]_vars

\* ------------------------------------------------------------------ claims

IdsOf(recs) == {recs[i].id : i \in 1..Len(recs)}

IdSeq(recs) == [i \in 1..Len(recs) |-> recs[i].id]

Mapping(recs) == {<<recs[i].id, recs[i].vector>> : i \in 1..Len(recs)}

Bit(x, j) == (x \div (2 ^ j)) % 2

\* Number of bit positions in which two vectors of one length differ.
DiffBits(a, b) ==
    Cardinality({p \in (1..Len(a)) \X (0..(WordBits - 1)) :
                    Bit(a[p[1]], p[2]) # Bit(b[p[1]], p[2])})

SameLength(recs, query) == \A i \in 1..Len(recs) : Len(recs[i].vector) = Len(query)

Min(a, b) == IF a < b THEN a ELSE b

\* C1: while no remove(id) or clear followed the latest upsert of id, get(id)
\* is exactly the record of that upsert, and all() never holds two records
\* with one id.
C1_GetReturnsLatestUpsert ==
    /\ \A id \in Ids : lastUpsert[id] # None => get(records, id) = lastUpsert[id]
    /\ \A i, j \in 1..Len(all(records)) :
            all(records)[i].id = all(records)[j].id => i = j

\* An upsert has just replaced the record of an id that was in the store, with
\* another id beside it.
C1_Witness ==
    /\ lastOp = "replace"
    /\ Len(records) = 2
    /\ \E id \in Ids : get(records, id) = lastUpsert[id] /\ lastUpsert[id] # None

\* C2: the ids of all() are exactly the ids upserted and not removed or
\* cleared since; after clear, all() is empty.
C2_AllReflectsLiveIds ==
    /\ IdsOf(all(records)) = liveIds
    /\ lastOp = "clear" => all(records) = <<>>

\* A remove has just taken one id out and left the other.
C2_Witness == lastOp = "remove" /\ Len(all(records)) = 1 /\ IdsOf(all(records)) = liveIds

\* C3: all vectors stored in one store have the same word count.
C3_UniformWordCount ==
    \A i, j \in 1..Len(records) : Len(records[i].vector) = Len(records[j].vector)

\* C4: queryBinary on a store where some vector's word count differs from the
\* probe's fails with the length mismatch and returns nothing; every distance
\* it does return is the number of differing bits of two vectors of one length.
C4_ScalarLengthMismatchFails ==
    returned.entry = "queryBinary" =>
        /\ ~SameLength(returned.scanned, returned.probe)
                => returned.outcome = Failure("LengthMismatch")
        /\ \A i \in 1..Len(returned.outcome.results) :
                LET r == returned.outcome.results[i] IN
                /\ Len(r.vector) = Len(returned.probe)
                /\ r.distance = DiffBits(returned.probe, r.vector)

\* queryBinary has failed on a store whose first vector has the probe's length
\* and whose second has not.
C4_Witness ==
    /\ returned.entry = "queryBinary"
    /\ Len(returned.scanned) = 2
    /\ Len(returned.scanned[1].vector) = Len(returned.probe)
    /\ Len(returned.scanned[2].vector) # Len(returned.probe)
    /\ returned.outcome = Failure("LengthMismatch")

\* C5: queryBinarySIMD over a loaded kernel fails with the length mismatch
\* whenever some stored vector's word count differs from the probe's.
C5_KernelLengthMismatchFails ==
    (/\ returned.entry = "queryBinarySIMD"
     /\ returned.kernel = "exports"
     /\ ~SameLength(returned.scanned, returned.probe))
        => returned.outcome = Failure("LengthMismatch")

\* C6: on a store of n vectors of the probe's length and topK >= 0, queryBinary
\* returns min(topK, n) results in non-decreasing distance, each a stored
\* record with its distance, and no record left out is nearer than one returned.
C6_TopKLowest ==
    (/\ returned.entry = "queryBinary"
     /\ SameLength(returned.scanned, returned.probe)
     /\ returned.topK >= 0)
        =>
        LET res == returned.outcome.results
            out == {i \in 1..Len(returned.scanned) :
                        returned.scanned[i].id \notin IdsOf(res)}
        IN  /\ returned.outcome.tag = "ok"
            /\ Len(res) = Min(returned.topK, Len(returned.scanned))
            /\ \A i, j \in 1..Len(res) : i < j => res[i].distance <= res[j].distance
            /\ \A i, j \in 1..Len(res) : res[i].id = res[j].id => i = j
            /\ \A i \in 1..Len(res) :
                    /\ \E k \in 1..Len(returned.scanned) :
                            returned.scanned[k] =
                                [id |-> res[i].id, vector |-> res[i].vector,
                                 metadata |-> res[i].metadata]
                    /\ res[i].distance = DiffBits(returned.probe, res[i].vector)
            /\ \A k \in out : \A i \in 1..Len(res) :
                    DiffBits(returned.probe, returned.scanned[k].vector) >= res[i].distance

\* queryBinary with topK = 1 has returned the nearer of two records, which was
\* inserted after the farther one.
C6_Witness ==
    /\ returned.entry = "queryBinary"
    /\ returned.topK = 1
    /\ Len(returned.scanned) = 2
    /\ SameLength(returned.scanned, returned.probe)
    /\ DiffBits(returned.probe, returned.scanned[1].vector)
            > DiffBits(returned.probe, returned.scanned[2].vector)
    /\ IdSeq(returned.outcome.results) = <<returned.scanned[2].id>>

\* C7: two queryBinary calls with one probe and topK, on stores holding the
\* same id-to-vector mapping, return the same sequence of ids.
C7_OrderFromContentsAlone ==
    (/\ returned.entry = "queryBinary"
     /\ kept.entry = "queryBinary"
     /\ returned.probe = kept.probe
     /\ returned.topK = kept.topK
     /\ Mapping(returned.scanned) = Mapping(kept.scanned))
        => IdSeq(returned.outcome.results) = IdSeq(kept.outcome.results)

\* C8: loadHammingSimdWasm runs once if queryBinarySIMD was ever called and
\* never otherwise, no call waits without a cached promise, and every call
\* resumes with the outcome of that one load.
C8_SingleFlight ==
    /\ loadCalls = (IF simdCalled = "never" THEN 0 ELSE 1)
    /\ waiters # <<>> => wasm # "null"
    /\ returned.entry = "queryBinarySIMD"
            => /\ returned.kernel = wasm
               /\ loadPc = "done"
               /\ wasm \in {"exports", "absent"}

\* After the one load failed, calls kept coming: one has resumed and others wait.
C8_Witness ==
    /\ simdCalled = "late"
    /\ wasm = "absent"
    /\ loadCalls = 1
    /\ returned.entry = "queryBinarySIMD"
    /\ Len(waiters) = MaxWaiters - 1

\* C9: a queryBinarySIMD call whose kernel load failed settles with what
\* queryBinary gives for the store, probe and topK of its scan, and with no
\* error other than queryBinary's own.
C9_LoadFailureFallsBack ==
    (returned.entry = "queryBinarySIMD" /\ returned.kernel = "absent")
        => /\ returned.outcome = queryBinary(returned.scanned, returned.probe, returned.topK)
           /\ returned.outcome.tag \in {"ok", "LengthMismatch"}
           /\ SameLength(returned.scanned, returned.probe) => returned.outcome.tag = "ok"
           /\ \A i \in 1..Len(returned.outcome.results) :
                returned.outcome.results[i].distance
                    = DiffBits(returned.probe, returned.outcome.results[i].vector)

\* A call that found the load failed has returned a ranked record.
C9_Witness ==
    /\ returned.entry = "queryBinarySIMD"
    /\ returned.kernel = "absent"
    /\ returned.outcome.tag = "ok"
    /\ Len(returned.scanned) = 2
    /\ Len(returned.outcome.results) = 1

\* C10: over a loaded kernel, queryBinarySIMD settles with exactly what
\* queryBinary settles with for the same store, probe and topK.
C10_AcceleratedAgreesWithScalar ==
    (returned.entry = "queryBinarySIMD" /\ returned.kernel = "exports")
        => returned.outcome = queryBinary(returned.scanned, returned.probe, returned.topK)

\* ------------------------------------------------- claims on the handler

\* The automatic path of a request has taken its match decision.
AutoDecided(req) == req.userId = "" /\ req.index > 0 /\ req.index = Len(users)

\* The decision was a match: the handler went on with the best candidate.
AutoMatched(req) == AutoDecided(req) /\ req.user # ""

\* cos(a, b) >= 1/10, from the definition of the cosine.
CosineAtLeastTenth(a, b) ==
    LET dot == DotFrom(a, b, 1)
        na == DotFrom(a, a, 1)
        nb == DotFrom(b, b, 1)
    IN  na > 0 /\ nb > 0 /\ dot >= 0 /\ 100 * dot * dot >= na * nb

\* cos(q, a) >= cos(q, b) for vectors of non-zero norm
CosineNotBelow(q, a, b) ==
    LET da == DotFrom(q, a, 1)
        db == DotFrom(q, b, 1)
        na == DotFrom(a, a, 1)
        nb == DotFrom(b, b, 1)
    IN  IF nb = 0 THEN da >= 0
        ELSE IF na = 0 THEN db <= 0
        ELSE IF da >= 0 /\ db < 0 THEN TRUE
        ELSE IF da < 0 /\ db >= 0 THEN FALSE
        ELSE IF da >= 0 THEN da * da * nb >= db * db * na
        ELSE da * da * nb <= db * db * na

\* C11 as stated, with the score of the best candidate read as its distance
\* and the handler's threshold as maxDistance: the decision is a match iff a
\* best candidate is present and its score is at most the threshold.
C11_MatchedIffDistanceWithinMax ==
    \A r \in Reqs :
        AutoDecided(reqs[r])
            => (AutoMatched(reqs[r])
                    <=> /\ reqs[r].bestMatch.present
                        /\ ~SimGreater(reqs[r].bestMatch.similarity,
                                       Similarity(AutoThreshold.num,
                                                  AutoThreshold.den * AutoThreshold.den)))

\* C11 (amended): the decision is a match iff a best candidate is present and
\* its cosine similarity to the probe is at least the threshold 0.1, which is
\* the case iff some registered user's embedding has such a similarity; the
\* matched user is then one of greatest similarity. An absent best gives no
\* match, and so does a best candidate whose similarity is below 0.1.
C11_MatchedIffSimilarityAtLeastThreshold ==
    \A r \in Reqs :
        LET req == reqs[r] IN
        AutoDecided(req)
            => /\ AutoMatched(req)
                    <=> \E i \in 1..Len(users) :
                            CosineAtLeastTenth(req.queryEmbedding, users[i].faceEmbedding)
               /\ AutoMatched(req)
                    <=> (req.bestMatch.present
                            /\ SimAtLeast(req.bestMatch.similarity, AutoThreshold))
               /\ ~req.bestMatch.present => ~AutoMatched(req)
               /\ ~AutoMatched(req) => req.response = "400 No matching user found"
               /\ AutoMatched(req)
                    => \E i \in 1..Len(users) :
                        /\ users[i].id = req.user
                        /\ \A j \in 1..Len(users) :
                            CosineNotBelow(req.queryEmbedding, users[i].faceEmbedding,
                                           users[j].faceEmbedding)

\* The sole candidate has a similarity just under 0.1 and the request was
\* answered with no match.
C11_Witness ==
    /\ Len(users) = 1
    /\ AutoDecided(reqs["r1"])
    /\ reqs["r1"].bestMatch.present
    /\ reqs["r1"].bestMatch.similarity = Similarity(1, 101)
    /\ reqs["r1"].response = "400 No matching user found"

\* Entries of one user in the ledger, oldest first.
RECURSIVE StatusesOf(_, _)
StatusesOf(log, userId) ==
    IF log = <<>> THEN <<>>
    ELSE IF Head(log).userId = userId
    THEN <<Head(log).status>> \o StatusesOf(Tail(log), userId)
    ELSE StatusesOf(Tail(log), userId)

\* C12: the status a request logs is decided by the last recorded status of
\* its user alone: none or CLOCK_OUT gives CLOCK_IN and CLOCK_IN gives
\* CLOCK_OUT, on the userId path and on the automatic path alike; with one
\* request at a time that last status is the user's latest ledger entry.
C12_NextActionFromLastStatus ==
    \A r \in Reqs :
        LET req == reqs[r] IN
        req.status # ""
            => /\ req.lastStatus \in {"", "CLOCK_OUT"} => req.status = "CLOCK_IN"
               /\ req.lastStatus = "CLOCK_IN" => req.status = "CLOCK_OUT"
               /\ req.lastStatus \in {"", "CLOCK_IN", "CLOCK_OUT"}
               /\ (req.pc = "logAttendance" /\ req.appended = 0)
                    => req.lastStatus = LastStatus(ledger, req.user)
               /\ req.userId # "" => req.user = req.userId
               /\ req.userId = "" => req.user = req.bestMatch.id

\* A request on the automatic path found CLOCK_IN as the last status of its
\* user and logged CLOCK_OUT as the second entry of the ledger.
C12_Witness ==
    /\ reqs["r1"].userId = ""
    /\ reqs["r1"].lastStatus = "CLOCK_IN"
    /\ reqs["r1"].status = "CLOCK_OUT"
    /\ reqs["r1"].response = "200 Success"
    /\ Len(ledger) = 2
    /\ ledger[2] = [userId |-> reqs["r1"].user, status |-> "CLOCK_OUT"]

\* ----------------------------------------------- claims on the store (2)

\* C13: remove(id) of an id the store does not hold changes no record;
\* remove(id) of an id it holds leaves get(id) absent and id out of all(),
\* and every other id keeps its record and its place.
C13_RemoveOnlyThatId ==
    [][\A id \in Ids :
        Remove(id)
            => /\ get(records', id) = None
               /\ id \notin IdsOf(all(records'))
               /\ \A other \in Ids \ {id} : get(records', other) = get(records, other)
               /\ IdSeq(all(records')) = SelectSeq(IdSeq(all(records)), LAMBDA i : i # id)
               /\ get(records, id) = None => all(records') = all(records)]_vars

\* A remove of an id the store did not hold has left a record in the store.
C13_Witness == lastOp = "removeAbsent" /\ Len(all(records)) = 1 /\ get(records, "a") = None

\* C14: the array all() returned is a copy: upsert, remove and clear done
\* afterwards change neither its length nor its order nor its elements; only
\* another call of all() gives the caller other contents.
C14_AllIsSnapshot ==
    [][snapshot.taken
        => \/ snapshot'.items = snapshot.items
           \/ (snapshot'.items = all(records) /\ records' = records)]_vars

\* The caller still holds both records of a store that has been cleared since.
C14_Witness ==
    /\ snapshot.taken
    /\ Len(snapshot.items) = 2
    /\ lastOp = "clear"
    /\ all(records) = <<>>

\* C15: a query of a store without records gives an empty sequence and no
\* error, from queryBinary and from queryBinarySIMD alike, with the kernel
\* loaded or not, whatever the probe's word count and whatever topK.
C15_EmptyStoreGivesEmptyResult ==
    (returned.entry \in {"queryBinary", "queryBinarySIMD"} /\ returned.scanned = <<>>)
        => /\ returned.outcome.tag = "ok"
           /\ returned.outcome.results = <<>>

\* queryBinarySIMD ran over a loaded kernel on a store without records, with
\* a probe of the greatest word count and topK = -1.
C15_Witness ==
    /\ returned.entry = "queryBinarySIMD"
    /\ returned.kernel = "exports"
    /\ returned.scanned = <<>>
    /\ Len(returned.probe) = MaxWords
    /\ returned.topK = -1
    /\ returned.outcome = [tag |-> "ok", results |-> <<>>]

\* ------------------------------------------- claims on the pure functions

\* C16: binarizeEmbedding of an empty sequence of values fails with
\* InvalidInput; it does not return a vector of zero words.
C16_EmptyInputFails ==
    (pureCall.fn = "binarizeEmbedding" /\ pureResult # NoResult /\ pureCall.embedding = <<>>)
        => pureResult.tag = "InvalidInput"

\* ceil(n / WordBits), by its definition: the least k with k * WordBits >= n
CeilWords(n) == CHOOSE k \in 0..n : k * WordBits >= n /\ \A j \in 0..(k - 1) : j * WordBits < n

\* C17: for a non-empty input binarizeEmbedding returns ceil(len / wordBits)
\* words; bit i, which is bit i mod wordBits of word floor(i / wordBits)
\* counted from the least significant, is set iff values[i] > threshold, and
\* the bits of the last word from position len on are zero.
C17_BitsFollowThreshold ==
    (pureCall.fn = "binarizeEmbedding" /\ pureResult # NoResult /\ pureCall.embedding # <<>>)
        => LET values == pureCall.embedding
               threshold == IF pureCall.threshold.given THEN pureCall.threshold.value ELSE 0
               words == pureResult.value
           IN  /\ pureResult.tag = "ok"
               /\ Len(words) = CeilWords(Len(values))
               /\ \A k \in 1..Len(words) : words[k] \in 0..(2 ^ WordBits - 1)
               /\ \A i \in 0..(Len(values) - 1) :
                    (Bit(words[(i \div WordBits) + 1], i % WordBits) = 1)
                        <=> (values[i + 1] > threshold)
               /\ \A i \in Len(values)..(Len(words) * WordBits - 1) :
                    Bit(words[(i \div WordBits) + 1], i % WordBits) = 0

\* An input that ends in the middle of a word after its first, with only the
\* first value of that word above the threshold.
C17_Witness ==
    /\ pureCall.fn = "binarizeEmbedding"
    /\ pureResult # NoResult
    /\ Len(pureCall.embedding) % WordBits # 0
    /\ Len(pureResult.value) >= 2
    /\ pureResult.value[Len(pureResult.value)] = 1

\* C18: for packed vectors a and b of one length, hamming(a, b) is 0 when
\* a = b, equals hamming(b, a), and lies in 0..bitLength, the word width
\* times the word count.
C18_HammingIsSymmetricAndBounded ==
    (/\ pureCall.fn = "hammingDistancePacked"
     /\ pureResult # NoResult
     /\ Len(pureCall.a) = Len(pureCall.b))
        => /\ pureResult.tag = "ok"
           /\ pureCall.a = pureCall.b => pureResult.value = 0
           /\ hammingDistancePacked(pureCall.b, pureCall.a) = [ok |-> TRUE, value |-> pureResult.value]
           /\ pureResult.value >= 0
           /\ pureResult.value <= WordBits * Len(pureCall.a)

\* Two vectors of the greatest length that differ in every bit.
C18_Witness ==
    /\ pureCall.fn = "hammingDistancePacked"
    /\ pureResult # NoResult
    /\ Len(pureCall.a) = MaxWords
    /\ Len(pureCall.b) = MaxWords
    /\ pureResult.value = WordBits * MaxWords

\* C19: the distance queryBinary attaches to a result is the number of bit
\* positions in which the probe and the record's vector differ; the loop that
\* clears the lowest set bit of a[i] XOR b[i] ends, having counted the set
\* bits, and hammingDistancePacked sums those counts over the words.
C19_DistanceCountsDifferingBits ==
    /\ (pureCall.fn = "queryBinary" /\ pureResult # NoResult /\ pureResult.tag = "ok")
        => /\ Len(pureResult.value) = 1
           /\ pureResult.value[1].vector = pureCall.vector
           /\ pureResult.value[1].distance = DiffBits(pureCall.query, pureCall.vector)
    /\ (pureCall.fn = "hammingDistancePacked" /\ pureResult # NoResult
            /\ pureResult.tag = "ok")
        => pureResult.value = DiffBits(pureCall.a, pureCall.b)

\* A query whose probe of the greatest length differs from the stored vector
\* in as many bits as it has words.
C19_Witness ==
    /\ pureCall.fn = "queryBinary"
    /\ pureResult # NoResult
    /\ pureResult.tag = "ok"
    /\ Len(pureCall.query) = MaxWords
    /\ pureCall.query # pureCall.vector
    /\ pureResult.value[1].distance = MaxWords

\* ------------------------------------------------- claims on callMCPTool

\* An invocation that has started and not yet returned or thrown.
McpRunning == mcp.pc \in {"fetch", "json", "sleep"}

McpEnded == mcp.pc \in {"returned", "thrown"}

\* What holds of an invocation at every moment.
McpBounded ==
    /\ mcp.requests <= 3
    /\ McpRunning => mcp.requests = mcp.attempt + 1
    /\ mcp.pc = "returned"
        => /\ mcp.value = [kind |-> "result", attempt |-> mcp.requests - 1]
           /\ Len(mcp.errors) = mcp.requests - 1
    /\ mcp.pc = "thrown"
        => /\ Len(mcp.errors) = mcp.requests
           /\ mcp.value.kind = "error"
           /\ mcp.value.message =
                (IF mcp.errors[Len(mcp.errors)] = "" THEN "unknown error"
                 ELSE mcp.errors[Len(mcp.errors)])

\* C20: a callMCPTool invocation ends after at most 3 requests (one attempt
\* and at most 2 retries): it returns the response of its first successful
\* attempt, or throws an error that carries the message of its last failure,
\* and once it has ended it makes no further request.
C20_EndsWithinThreeAttempts ==
    /\ []McpBounded
    /\ [][McpEnded => (mcp'.requests = mcp.requests \/ mcp'.requests = 1)]_vars
    /\ McpRunning ~> McpEnded

\* Three requests were made and each ended in a timeout; the third one's
\* message is in the error thrown.
C20_Witness ==
    /\ mcp.pc = "thrown"
    /\ mcp.requests = 3
    /\ mcp.errors = <<"Headers Timeout Error", "The operation was aborted", "Body Timeout Error">>
    /\ mcp.value.message = "Body Timeout Error"

\* ------------------------------------------- claims on callMCPTool (2)

\* What kind of failure a message reports, by what happened rather than by
\* its wording: the request or the body timed out, or the 5 minute timer
\* aborted the request ("timeout"); the server answered with a status that
\* is not ok ("http"); anything else ("other").
FailureKind(message) ==
    IF message \in AbortErrors
            \cup {"Headers Timeout Error", "UND_ERR_HEADERS_TIMEOUT", "Body Timeout Error"}
    THEN "timeout"
    ELSE IF message \in NotOkErrors THEN "http"
    ELSE "other"

\* C21: callMCPTool retries timeout failures only: a failure of another kind
\* (a response that is not ok, say) on any attempt ends the call at once with
\* an error and no further request, and a timeout failure on attempt 0 or 1
\* is always followed by another attempt.
C21_RetriesOnlyTimeouts ==
    \A i \in 1..Len(mcp.errors) :
        /\ FailureKind(mcp.errors[i]) # "timeout"
            => (i = Len(mcp.errors) /\ mcp.pc = "thrown" /\ mcp.requests = i)
        /\ (FailureKind(mcp.errors[i]) = "timeout" /\ i <= maxRetries)
            => ~(mcp.pc = "thrown" /\ Len(mcp.errors) = i)

\* ----------------------------------------------- claims on the store (3)

\* C22: a queryBinary issued after upsert(r) has completed observes it: with
\* no later upsert or remove of r.id and no clear, r.id is among the
\* candidates with the distance of r.vector, so it is in the result whenever
\* topK is at least the size of the store; of several upserts of one id the
\* one issued last is the one observed.
C22_QueryObservesLatestUpsert ==
    (returned.entry = "queryBinary" /\ returned.outcome.tag = "ok")
        => \A id \in Ids :
            lastUpsert[id] # None
                => /\ \E i \in 1..Len(returned.scanned) : returned.scanned[i] = lastUpsert[id]
                   /\ returned.topK >= Len(returned.scanned)
                        => \E i \in 1..Len(returned.outcome.results) :
                            /\ returned.outcome.results[i].id = id
                            /\ returned.outcome.results[i].vector = lastUpsert[id].vector
                            /\ returned.outcome.results[i].distance
                                = DiffBits(returned.probe, lastUpsert[id].vector)

\* A query of a two-record store found the record last upserted under id "a",
\* at the distance of its vector, behind the closer record "b".
C22_Witness ==
    /\ returned.entry = "queryBinary"
    /\ returned.outcome.tag = "ok"
    /\ returned.probe = Uniform(1, 0)
    /\ Len(returned.scanned) = 2
    /\ returned.scanned[1] = lastUpsert["a"]
    /\ lastUpsert["a"].vector = LowBit(1)
    /\ lastUpsert["b"].vector = Uniform(1, 0)
    /\ Len(returned.outcome.results) = 2
    /\ returned.outcome.results[2].id = "a"
    /\ returned.outcome.results[2].distance = 1

\* --------------------------------------------- claims on the handler (2)

\* findBestFaceMatch has returned to the automatic path of a request.
BestFound(req) == req.userId = "" /\ req.pc \in {"debugCompare", "findFirst", "logAttendance"}

\* C23: findBestFaceMatch returns null exactly when no candidate's similarity
\* to the query reaches the threshold, and otherwise the candidate of the
\* highest similarity.
C23_NullUnlessThresholdReached ==
    \A r \in Reqs :
        LET req == reqs[r] IN
        BestFound(req)
            => /\ ~req.bestMatch.present
                    <=> ~\E i \in 1..Len(users) :
                            CosineAtLeastTenth(req.queryEmbedding, users[i].faceEmbedding)
               /\ req.bestMatch.present
                    => \E i \in 1..Len(users) :
                        /\ users[i].id = req.bestMatch.id
                        /\ \A j \in 1..Len(users) :
                            CosineNotBelow(req.queryEmbedding, users[i].faceEmbedding,
                                           users[j].faceEmbedding)

\* --------------------------------------------- claims on the handler (3)

\* similarity >= 0.6 for a similarity num / sqrt(den2), in integers
AtLeastSixTenths(similarity) ==
    similarity.num >= 0 /\ 25 * similarity.num * similarity.num >= 9 * similarity.den2

\* The match step of a request succeeded.
MatchSucceeded(req) ==
    IF req.userId # ""
    THEN AtLeastSixTenths(req.similarity)
    ELSE req.bestMatch.present /\ req.bestMatch.match

\* C24: under every interleaving of concurrent clock-in requests of one
\* identity, the entries appended for that identity alternate CLOCK_IN,
\* CLOCK_OUT, CLOCK_IN, ... from CLOCK_IN on: no two consecutive entries
\* carry the same status.
C24_LedgerAlternates ==
    \A u \in UserIds :
        LET own == StatusesOf(ledger, u) IN
        \A i \in 1..Len(own) : own[i] = (IF i % 2 = 1 THEN "CLOCK_IN" ELSE "CLOCK_OUT")

\* C25: a request calls logAttendance only after its match step succeeded
\* (userId path: similarity >= 0.6; automatic path: a best match that is not
\* null and whose match flag is true), and a request answered with missing
\* image, embedding failure, user not found, no registered users or no match
\* has appended nothing to the ledger.
C25_LogOnlyAfterMatch ==
    \A r \in Reqs :
        LET req == reqs[r] IN
        /\ (req.pc = "logAttendance" \/ req.appended > 0 \/ req.response = "200 Success")
            => /\ MatchSucceeded(req)
               /\ \E i \in 1..Len(users) : users[i].id = req.user
        /\ req.response \in {"400 Missing required field", "400 Failed to process face image",
                             "404 User not found", "404 No registered users found",
                             "400 No matching user found",
                             "400 Face does not match registered user"}
            => req.appended = 0

\* A request on the userId path whose similarity was 0.5 has been answered
\* with no match while the ledger holds an entry of an earlier request.
C25_Witness ==
    /\ reqs["r1"].response = "400 Face does not match registered user"
    /\ reqs["r1"].similarity = [num |-> 1, den2 |-> 4]
    /\ reqs["r1"].appended = 0
    /\ Len(ledger) = 1

\* C26: a clock-in request appends at most one entry to the ledger, also when
\* the attendance.log call times out on the client side and callMCPTool
\* sends it again.
C26_AtMostOneEntryPerRequest == \A r \in Reqs : reqs[r].appended <= 1

\* ------------------------------------- claims on what a query observes

\* The results name each record of recs at most once, each with the vector
\* recs holds for it, and name every record of recs when topK allows.
ResultsDrawnFrom(results, recs, topK) ==
    /\ \A i \in 1..Len(results) :
         /\ IndexOf(recs, results[i].id) # 0
         /\ results[i].vector = recs[IndexOf(recs, results[i].id)].vector
         /\ \A j \in 1..Len(results) : results[j].id = results[i].id => j = i
    /\ Len(results) = Min(topK, Len(recs))

\* C27: a queryBinarySIMD call computes its result from the store as it
\* stands when the call resumes after the kernel load has settled, in one
\* scan of that store: upserts, removals and clears made between the call and
\* that moment show in the result, whatever the store held when the call was
\* made; queryBinary computes its result from the store it was called on.
C27_ScanAtResumption ==
    /\ returned.entry = "queryBinarySIMD"
        => /\ returned.scanned = records
           /\ returned.outcome.tag = "ok"
                => ResultsDrawnFrom(returned.outcome.results, records, returned.topK)
    /\ returned.entry = "queryBinary"
        => /\ returned.scanned = returned.calledOn
           /\ returned.calledOn = records
           /\ returned.outcome.tag = "ok"
                => ResultsDrawnFrom(returned.outcome.results, returned.calledOn,
                                    returned.topK)

\* A queryBinarySIMD call made on an empty store before the load had settled
\* gives a record that was upserted while the call was suspended.
C27_Witness ==
    /\ returned.entry = "queryBinarySIMD"
    /\ simdCalled = "early"
    /\ returned.calledOn = <<>>
    /\ returned.outcome.tag = "ok"
    /\ Len(returned.outcome.results) = 1
    /\ records # <<>>

\* ------------------------------------------- claims on the model loaders

\* C28: the browser's loadModels is single-flight with retry after failure.
\* At most one load attempt is pending, it is the cached promise, and every
\* caller waiting on a pending attempt waits on that one; no attempt is
\* started after one has succeeded; a caller ends as the attempt it waited on
\* did; a failed attempt is no longer the cached promise, and no caller is
\* ever handed an attempt that had already settled, so that a call after a
\* failure starts a fresh attempt.
C28_SingleFlightWithRetry ==
    LET b == browserModels IN
    /\ \A n \in 1..MaxLoads :
         /\ b.promises[n] = "pending" => (n = b.starts /\ n = b.loadingPromise)
         /\ b.promises[n] = "fulfilled" => (n = b.starts /\ b.modelsLoaded)
         /\ b.promises[n] = "rejected" => b.loadingPromise # n
         /\ b.promises[n] = "none" <=> n > b.starts
    /\ b.modelsLoaded => b.promises[b.starts] = "fulfilled"
    /\ \A c \in Callers :
         LET caller == b.callers[c] IN
         /\ ~caller.joinedSettled
         /\ caller.pc = "awaiting" => caller.attempt \in 1..b.starts
         /\ (caller.pc = "loaded" /\ caller.attempt # 0)
                => b.promises[caller.attempt] = "fulfilled"
         /\ (caller.pc = "loaded" /\ caller.attempt = 0) => b.modelsLoaded
         /\ (caller.pc = "failed" /\ caller.attempt # 0)
                => b.promises[caller.attempt] = "rejected"

\* Two callers shared a first attempt and both saw it fail; a third caller
\* then started a second attempt, which succeeded.
C28_Witness ==
    LET b == browserModels IN
    /\ b.starts = 2
    /\ b.promises[1] = "rejected"
    /\ b.promises[2] = "fulfilled"
    /\ \E c, d, e \in Callers :
         /\ c # d
         /\ b.callers[c].pc = "failed" /\ b.callers[c].attempt = 1
         /\ b.callers[d].pc = "failed" /\ b.callers[d].attempt = 1
         /\ b.callers[e].pc = "loaded" /\ b.callers[e].attempt = 2

\* Callers of the server's loadModels that are loading the nets from disk.
ServerLoading ==
    {c \in Callers :
        serverModels.callers[c].pc
            \in {"tinyFaceDetector", "faceLandmark68Net", "faceRecognitionNet"}}

\* C29: the server's loadModels loads the face-recognition models at most
\* once per process: no two calls are loading them at the same time, and the
\* load completes at most once.
C29_ModelsLoadedAtMostOnce ==
    /\ Cardinality(ServerLoading) <= 1
    /\ serverModels.completed <= 1

\* ------------------------------------------------ claims on the EntityDB

\* C30: when clearEntityDB resolves, dbInstance and initPromise are both
\* null, and the first getEntityDB call after that returns an EntityDB
\* constructed after the clear, not one that existed before it.
C30_FreshInstanceAfterClear ==
    /\ browserDb.atResolve.resolved
        => (browserDb.atResolve.dbInstance = 0 /\ browserDb.atResolve.initPromise = 0)
    /\ \A c \in Callers :
         (browserDb.getters[c].first /\ browserDb.getters[c].pc = "got")
            => browserDb.getters[c].got > browserDb.getters[c].existed

====
